---- MODULE Spec2Model ----
(***************************************************************************)
(* Werewolf-AI-Game ("Darkwood"): the game session held by the App         *)
(* component (src/App.tsx), as a state machine.                            *)
(*                                                                         *)
(* The session is the React state `state : GameState`; every handler of    *)
(* App is an async function whose synchronous sections (the code between   *)
(* two awaits) are the atomic steps of the model.  All setState calls of   *)
(* one synchronous section are applied in order as one commit (React's     *)
(* automatic batching), and the effect on [state.phase] runs once after a  *)
(* commit that changed the phase.  A handler reads the `state` of the      *)
(* render it was created in: the values it captured are kept in `frame`.   *)
(*                                                                         *)
(* The oracles (geminiService.ts) are the environment: their results are   *)
(* the parameters of the actions that model the completion of an await.    *)
(***************************************************************************)
EXTENDS Integers, Sequences, FiniteSets, TLC

VARIABLES
    state,                  \* useState<GameState>                 App.tsx:27
    isLoading,              \* useState(false)                     App.tsx:28
    selectedActionTarget,   \* useState<string | null>(null)       App.tsx:29
    activeActionType,       \* useState<'ROLE' | 'RUNE'>('ROLE')   App.tsx:35
    selectedRuneId,         \* useState<string | null>(null)       App.tsx:36
    renderedPhase,          \* state.phase of the last commit whose effect has run
    pc,                     \* position of each async function of App
    frame,                  \* locals and captured render values of each async function
    fnIn,                   \* the argument of a function applied on its own (SpecWin, SpecVote)
    fnOut                   \* its result

vars == <<state, isLoading, selectedActionTarget, activeActionType,
          selectedRuneId, renderedPhase, pc, frame, fnIn, fnOut>>

uiVars == <<isLoading, selectedActionTarget, activeActionType, selectedRuneId>>

harnessVars == <<fnIn, fnOut>>

----------------------------------------------------------------------------
(* Values of types.ts and constants.ts *)

NULL == "null"

Roles == {"Villager", "Werewolf", "Seer", "Doctor"}

Phases == {"SETUP", "NIGHT_INTRO", "NIGHT_ACTION", "DAY_INTRO",
           "DAY_DISCUSSION", "DAY_VOTING", "GAME_OVER"}

MOON_PHASES == <<"New Moon", "Waxing Crescent", "First Quarter", "Waxing Gibbous",
                 "Full Moon", "Waning Gibbous", "Last Quarter", "Waning Crescent">>

AVAILABLE_RUNES ==
    << [name |-> "Lunar Sight",   type |-> "SIGHT",  cooldown |-> 3],
       [name |-> "Guardian Ward", type |-> "SHIELD", cooldown |-> 3],
       [name |-> "Shadow Veil",   type |-> "SHIELD", cooldown |-> 4] >>

\* the role pool of startGame: the user's role, then the seven bot roles
rolesPool(selectedRole) ==
    <<selectedRole, "Werewolf", "Seer", "Doctor",
      "Villager", "Villager", "Villager", "Werewolf">>

NumPlayers == 8

\* uuidv4() ids: the i-th participant created by startGame (1 = the user)
\* and its rune.  GhostId and GhostRune are ids no participant or rune has.
PlayerIds == <<"p1", "p2", "p3", "p4", "p5", "p6", "p7", "p8">>
RuneIds   == <<"r1", "r2", "r3", "r4", "r5", "r6", "r7", "r8">>
GhostId   == "ghost"
GhostRune == "rX"

Ids == {PlayerIds[i] : i \in 1..NumPlayers}

initialState ==
    [ players       |-> <<>>,
      phase         |-> "SETUP",
      dayCount      |-> 0,
      moonPhase     |-> MOON_PHASES[1],
      logs          |-> <<>>,
      winner        |-> NULL,
      userPlayerId  |-> "",
      targets       |-> [werewolf |-> NULL, doctor |-> NULL, seer |-> NULL],
      seerKnowledge |-> <<>> ]

----------------------------------------------------------------------------
(* Array helpers *)

Max(a, b) == IF a >= b THEN a ELSE b

\* Array.prototype.find by id: the first element with that id, or NULL
Find(arr, id) ==
    IF \E i \in DOMAIN arr : arr[i].id = id
    THEN arr[CHOOSE i \in DOMAIN arr :
                 /\ arr[i].id = id
                 /\ \A j \in DOMAIN arr : arr[j].id = id => i <= j]
    ELSE NULL

Has(arr, id) == \E i \in DOMAIN arr : arr[i].id = id

\* Array.prototype.includes
Includes(arr, x) == \E i \in DOMAIN arr : arr[i] = x

\* the sequence arr permuted by order: result[i] = arr[order[i]]
Permute(arr, order) == [i \in DOMAIN order |-> arr[order[i]]]

\* const userPlayer = state.players.find(p => p.id === state.userPlayerId)
userPlayerOf(s) == Find(s.players, s.userPlayerId)

\* userPlayer?.isAlive
userAliveIn(s) == Has(s.players, s.userPlayerId) /\ userPlayerOf(s).isAlive

\* variant of addLog: the new entry is put in front of the log
addLogPrepends(s, text, type, source) ==
    [s EXCEPT !.logs = <<[phase |-> s.phase, text |-> text,
                          type |-> type, source |-> source]>> \o @]

\* the updater of addLog applied to a session value
addLog(s, text, type, source) ==
    [s EXCEPT !.logs = Append(@, [phase |-> s.phase, text |-> text,
                                  type |-> type, source |-> source])]

----------------------------------------------------------------------------
(* Game setup *)

\* variant of getRandomRune: the rune starts on cooldown
getRandomRuneSpent(template, id) ==
    [ id |-> id,
      name |-> AVAILABLE_RUNES[template].name,
      type |-> AVAILABLE_RUNES[template].type,
      cooldown |-> AVAILABLE_RUNES[template].cooldown,
      currentCooldown |-> AVAILABLE_RUNES[template].cooldown ]

getRandomRune(template, id) ==
    [ id |-> id,
      name |-> AVAILABLE_RUNES[template].name,
      type |-> AVAILABLE_RUNES[template].type,
      cooldown |-> AVAILABLE_RUNES[template].cooldown,
      currentCooldown |-> 0 ]

\* The roster of startGame.  The three sources of Math.random are inputs:
\* botShuffle (a permutation of 1..7: the sort of rolesPool.slice(1)),
\* deal (the rune template drawn for each of the 8 participants) and
\* order (a permutation of 1..8: the sort of [userPlayer, ...bots]).
newRoster(selectedRole, botShuffle, deal, order) ==
    LET pool == rolesPool(selectedRole)
        botRoles == [i \in 1..(NumPlayers - 1) |-> pool[1 + botShuffle[i]]]
        userPlayer == [ id |-> PlayerIds[1], role |-> selectedRole,
                        isAlive |-> TRUE, isBot |-> FALSE, votesAgainst |-> 0,
                        runes |-> <<getRandomRune(deal[1], RuneIds[1])>> ]
        bots == [idx \in 1..(NumPlayers - 1) |->
                   [ id |-> PlayerIds[idx + 1], role |-> botRoles[idx],
                     isAlive |-> TRUE, isBot |-> TRUE, votesAgainst |-> 0,
                     runes |-> <<getRandomRune(deal[idx + 1], RuneIds[idx + 1])>> ]]
    IN  Permute(<<userPlayer>> \o bots, order)

startedState(selectedRole, botShuffle, deal, order) ==
    [ initialState EXCEPT
        !.players = newRoster(selectedRole, botShuffle, deal, order),
        !.userPlayerId = PlayerIds[1],
        !.phase = "NIGHT_INTRO",
        !.dayCount = 1,
        !.moonPhase = MOON_PHASES[1],
        !.logs = << [phase |-> "SETUP", text |-> <<"welcome">>,
                     type |-> "narrative", source |-> NULL] >> ]

\* the role buttons are rendered in the SETUP screen only (App.tsx:524-541)
startGame(selectedRole, botShuffle, deal, order) ==
    /\ state.phase = "SETUP"
    /\ state.phase = renderedPhase
    /\ state' = startedState(selectedRole, botShuffle, deal, order)
    /\ UNCHANGED <<uiVars, renderedPhase, pc, frame, harnessVars>>

\* variant of resetGame: only what the SETUP screen shows is cleared
resetGameShallow ==
    /\ state.winner # NULL
    /\ state.phase = renderedPhase
    /\ state' = [state EXCEPT !.phase = "SETUP", !.players = <<>>,
                              !.logs = <<>>, !.winner = NULL,
                              !.userPlayerId = ""]
    /\ UNCHANGED <<uiVars, renderedPhase, pc, frame, harnessVars>>

\* variant of resetGame: "Play Again" deals a new game at once
resetGameRestarts ==
    /\ state.winner # NULL
    /\ state.phase = renderedPhase
    /\ state' = [initialState EXCEPT !.phase = "NIGHT_INTRO", !.dayCount = 1]
    /\ UNCHANGED <<uiVars, renderedPhase, pc, frame, harnessVars>>

\* "Play Again" is rendered in the game-over modal, shown while state.winner
\* is set (App.tsx:798-816)
resetGame ==
    /\ state.winner # NULL
    /\ state.phase = renderedPhase
    /\ state' = initialState
    /\ UNCHANGED <<uiVars, renderedPhase, pc, frame, harnessVars>>

----------------------------------------------------------------------------
(* Phase transitions: the effect on [state.phase] (runPhase) *)

\* Cooldown Reduction for Night
\* variant of tickRune: the counter is not floored at 0
tickRuneUnfloored(r) == [r EXCEPT !.currentCooldown = r.currentCooldown - 1]

tickRune(r) == [r EXCEPT !.currentCooldown = Max(0, r.currentCooldown - 1)]

tickDown(players) ==
    [i \in DOMAIN players |->
        [players[i] EXCEPT !.runes = [k \in DOMAIN players[i].runes |->
                                         tickRune(players[i].runes[k])]]]

moonOfDay(dayCount) == MOON_PHASES[((dayCount - 1) % Len(MOON_PHASES)) + 1]

\* variant of RunPhaseNightIntro: the day is counted when the night begins
RunPhaseNightIntroCounts(maxDay) ==
    /\ state.phase # renderedPhase
    /\ state.phase = "NIGHT_INTRO"
    /\ state.dayCount <= maxDay
    /\ renderedPhase' = state.phase
    /\ isLoading' = TRUE
    /\ state' = [state EXCEPT !.moonPhase = moonOfDay(state.dayCount),
                              !.players = tickDown(state.players),
                              !.dayCount = @ + 1]
    /\ pc' = [pc EXCEPT !.intro = "await_narrator"]
    /\ UNCHANGED <<selectedActionTarget, activeActionType, selectedRuneId,
                   frame, harnessVars>>

\* runPhase, branch NIGHT_INTRO, up to the await of generateNarratorText.
\* maxDay bounds the model: the night of a day past maxDay is not explored.
RunPhaseNightIntro(maxDay) ==
    /\ state.phase # renderedPhase
    /\ state.phase = "NIGHT_INTRO"
    /\ state.dayCount <= maxDay
    /\ renderedPhase' = state.phase
    /\ isLoading' = TRUE
    /\ state' = [state EXCEPT !.moonPhase = moonOfDay(state.dayCount),
                              !.players = tickDown(state.players)]
    /\ pc' = [pc EXCEPT !.intro = "await_narrator"]
    /\ UNCHANGED <<selectedActionTarget, activeActionType, selectedRuneId,
                   frame, harnessVars>>

\* generateNarratorText resolved with `text` (flavor text or one of its two
\* default strings); runPhase continues up to setTimeout
NarratorIntroReturns(text) ==
    /\ pc.intro = "await_narrator"
    /\ state' = addLog(state, <<text>>, "narrative", NULL)
    /\ isLoading' = FALSE
    /\ activeActionType' = "ROLE"
    /\ selectedRuneId' = NULL
    /\ selectedActionTarget' = NULL
    /\ pc' = [pc EXCEPT !.intro = "timer"]
    /\ UNCHANGED <<renderedPhase, frame, harnessVars>>

\* variant of NightIntroTimer: the timer hands the night over to the day
NightIntroTimerToDay ==
    /\ pc.intro = "timer"
    /\ state' = [state EXCEPT !.phase = "DAY_INTRO"]
    /\ pc' = [pc EXCEPT !.intro = "idle"]
    /\ UNCHANGED <<uiVars, renderedPhase, frame, harnessVars>>

\* setTimeout(() => setState(prev => ({...prev, phase: NIGHT_ACTION})), 2000)
NightIntroTimer ==
    /\ pc.intro = "timer"
    /\ state' = [state EXCEPT !.phase = "NIGHT_ACTION"]
    /\ pc' = [pc EXCEPT !.intro = "idle"]
    /\ UNCHANGED <<uiVars, renderedPhase, frame, harnessVars>>

\* runPhase in a phase with no branch: SETUP, NIGHT_ACTION, DAY_VOTING, GAME_OVER
RunPhaseOther ==
    /\ state.phase # renderedPhase
    /\ state.phase \in {"SETUP", "NIGHT_ACTION", "DAY_VOTING", "GAME_OVER"}
    /\ renderedPhase' = state.phase
    /\ UNCHANGED <<state, uiVars, pc, frame, harnessVars>>

----------------------------------------------------------------------------
(* Night logic: the action bar of NIGHT_ACTION and confirmNightAction *)

\* canAct of the player grid (App.tsx:733-764) for `player` in session s
\* under the selection (actionType, runeId)
canAct(s, actionType, runeId, player) ==
    LET user == userPlayerOf(s)
        night ==
            /\ s.phase = "NIGHT_ACTION"
            /\ userAliveIn(s)
            /\ IF actionType = "ROLE"
               THEN \/ user.role = "Werewolf" /\ player.role # "Werewolf" /\ player.isAlive
                    \/ user.role = "Doctor" /\ player.isAlive
                    \/ user.role = "Seer" /\ player.isAlive /\ player.id # user.id
               ELSE /\ actionType = "RUNE"
                    /\ runeId # NULL
                    /\ Has(user.runes, runeId)
                    /\ player.isAlive
                    /\ \/ Find(user.runes, runeId).type = "SHIELD"
                       \/ /\ Find(user.runes, runeId).type = "SIGHT"
                          /\ player.id # user.id
        vote ==
            /\ s.phase = "DAY_VOTING"
            /\ userAliveIn(s)
            /\ player.isAlive
            /\ player.id # user.id
    IN  night \/ vote

\* a click on the action button of the card of targetId (PlayerCard, lines
\* 149-161 of its file: rendered for a living player with a label, disabled
\* unless canAct); in NIGHT_ACTION the card calls handleNightAction
handleNightAction(targetId) ==
    /\ state.phase = renderedPhase
    /\ state.phase = "NIGHT_ACTION"
    /\ Has(state.players, targetId)
    /\ Find(state.players, targetId).isAlive
    /\ canAct(state, activeActionType, selectedRuneId, Find(state.players, targetId))
    /\ selectedActionTarget' = targetId
    /\ UNCHANGED <<state, isLoading, activeActionType, selectedRuneId,
                   renderedPhase, pc, frame, harnessVars>>

\* variant of toggleRuneMode: a rune on cooldown can be selected as well
toggleRuneModeAnyRune(k) ==
    /\ state.phase = renderedPhase
    /\ state.phase = "NIGHT_ACTION"
    /\ userAliveIn(state)
    /\ k \in DOMAIN userPlayerOf(state).runes
    /\ LET rune == userPlayerOf(state).runes[k]
       IN  IF selectedRuneId = rune.id
           THEN /\ activeActionType' = "ROLE"
                /\ selectedRuneId' = NULL
           ELSE /\ activeActionType' = "RUNE"
                /\ selectedRuneId' = rune.id
    /\ selectedActionTarget' = NULL
    /\ UNCHANGED <<state, isLoading, renderedPhase, pc, frame, harnessVars>>

\* a click on the button of one of the user's runes (rendered in NIGHT_ACTION
\* while the user is alive, disabled unless the rune is ready)
toggleRuneMode(k) ==
    /\ state.phase = renderedPhase
    /\ state.phase = "NIGHT_ACTION"
    /\ userAliveIn(state)
    /\ k \in DOMAIN userPlayerOf(state).runes
    /\ LET rune == userPlayerOf(state).runes[k]
       IN  /\ rune.currentCooldown = 0
           /\ IF selectedRuneId = rune.id
              THEN /\ activeActionType' = "ROLE"
                   /\ selectedRuneId' = NULL
              ELSE /\ activeActionType' = "RUNE"
                   /\ selectedRuneId' = rune.id
    /\ selectedActionTarget' = NULL
    /\ UNCHANGED <<state, isLoading, renderedPhase, pc, frame, harnessVars>>

\* a click on the "Role" button of the action bar (App.tsx:651-664)
selectRoleMode ==
    /\ state.phase = renderedPhase
    /\ state.phase = "NIGHT_ACTION"
    /\ userAliveIn(state)
    /\ activeActionType' = "ROLE"
    /\ selectedRuneId' = NULL
    /\ selectedActionTarget' = NULL
    /\ UNCHANGED <<state, isLoading, renderedPhase, pc, frame, harnessVars>>

\* The render values confirmNightAction and confirmVote close over
captured ==
    [ state |-> state,
      selectedActionTarget |-> selectedActionTarget,
      activeActionType |-> activeActionType,
      selectedRuneId |-> selectedRuneId ]

\* variant of confirmNightActionClick: the button is not disabled by
\* isLoading
confirmNightActionClickWhileLoading ==
    /\ state.phase = renderedPhase
    /\ state.phase = "NIGHT_ACTION"
    /\ userAliveIn(state)
    /\ selectedActionTarget # NULL
    /\ isLoading' = TRUE
    /\ pc' = [pc EXCEPT !.night = "await_oracle"]
    /\ frame' = [frame EXCEPT !.night = captured]
    /\ UNCHANGED <<state, selectedActionTarget, activeActionType,
                   selectedRuneId, renderedPhase, harnessVars>>

\* confirmNightAction up to the await of generateBotNightActions.  The
\* button is rendered in NIGHT_ACTION while the user is alive and is
\* disabled when no target is selected or isLoading (App.tsx:705-718).
confirmNightActionClick ==
    /\ state.phase = renderedPhase
    /\ state.phase = "NIGHT_ACTION"
    /\ userAliveIn(state)
    /\ selectedActionTarget # NULL
    /\ ~isLoading
    /\ ~(selectedActionTarget = NULL /\ userAliveIn(state))
    /\ isLoading' = TRUE
    /\ pc' = [pc EXCEPT !.night = "await_oracle"]
    /\ frame' = [frame EXCEPT !.night = captured]
    /\ UNCHANGED <<state, selectedActionTarget, activeActionType,
                   selectedRuneId, renderedPhase, harnessVars>>

\* the rune ra names, if ra.playerId owns it
ownsRune(players, ra) ==
    /\ Has(players, ra.playerId)
    /\ Has(Find(players, ra.playerId).runes, ra.runeId)

runeTypeOf(players, ra) == Find(Find(players, ra.playerId).runes, ra.runeId).type

\* B. Bot Runes: the targets pushed to saves, in order
botRuneSaves(players, runeActions) ==
    LET shields == SelectSeq(runeActions,
                       LAMBDA ra : ownsRune(players, ra)
                                     /\ runeTypeOf(players, ra) = "SHIELD")
    IN  [i \in DOMAIN shields |-> shields[i].targetId]

\* C. User Action: whether the user's selection is resolved at all
userActs(c) ==
    userPlayerOf(c.state).isAlive /\ c.selectedActionTarget # NULL

userUsedRuneId(c) ==
    IF /\ userActs(c)
       /\ c.activeActionType = "RUNE"
       /\ c.selectedRuneId # NULL
       /\ Has(userPlayerOf(c.state).runes, c.selectedRuneId)
    THEN c.selectedRuneId
    ELSE NULL

userRuneType(c) == Find(userPlayerOf(c.state).runes, userUsedRuneId(c)).type

\* the test `if (id)` on a `string | null`: null and the empty string fail it
Truthy(id) == id # NULL /\ id # ""

\* variant of nightKills: the user's kill is pushed before the oracle's
nightKillsUserFirst(c, botActions) ==
    (IF /\ userActs(c)
        /\ c.activeActionType = "ROLE"
        /\ userPlayerOf(c.state).role = "Werewolf"
     THEN <<c.selectedActionTarget>> ELSE <<>>)
    \o (IF Truthy(botActions.werewolfKillTargetId)
        THEN <<botActions.werewolfKillTargetId>> ELSE <<>>)

nightKills(c, botActions) ==
    (IF Truthy(botActions.werewolfKillTargetId)
     THEN <<botActions.werewolfKillTargetId>> ELSE <<>>)
    \o (IF /\ userActs(c)
           /\ c.activeActionType = "ROLE"
           /\ userPlayerOf(c.state).role = "Werewolf"
        THEN <<c.selectedActionTarget>> ELSE <<>>)

\* variant of nightSaves: the user's SHIELD rune is not pushed to saves
nightSavesNoUserRune(c, botActions) ==
    (IF Truthy(botActions.doctorSaveTargetId)
     THEN <<botActions.doctorSaveTargetId>> ELSE <<>>)
    \o botRuneSaves(c.state.players, botActions.runeActions)
    \o (IF /\ userActs(c)
           /\ c.activeActionType = "ROLE"
           /\ userPlayerOf(c.state).role = "Doctor"
        THEN <<c.selectedActionTarget>> ELSE <<>>)

nightSaves(c, botActions) ==
    (IF Truthy(botActions.doctorSaveTargetId)
     THEN <<botActions.doctorSaveTargetId>> ELSE <<>>)
    \o botRuneSaves(c.state.players, botActions.runeActions)
    \o (IF /\ userActs(c)
           /\ c.activeActionType = "ROLE"
           /\ userPlayerOf(c.state).role = "Doctor"
        THEN <<c.selectedActionTarget>> ELSE <<>>)
    \o (IF userUsedRuneId(c) # NULL /\ userRuneType(c) = "SHIELD"
        THEN <<c.selectedActionTarget>> ELSE <<>>)

\* variant of nightReveals: the user's SIGHT rune reveals nothing
nightRevealsRoleOnly(c) ==
    IF /\ userActs(c)
       /\ c.activeActionType = "ROLE"
       /\ userPlayerOf(c.state).role = "Seer"
    THEN <<c.selectedActionTarget>> ELSE <<>>

nightReveals(c) ==
    (IF /\ userActs(c)
        /\ c.activeActionType = "ROLE"
        /\ userPlayerOf(c.state).role = "Seer"
     THEN <<c.selectedActionTarget>> ELSE <<>>)
    \o (IF userUsedRuneId(c) # NULL /\ userRuneType(c) = "SIGHT"
        THEN <<c.selectedActionTarget>> ELSE <<>>)

\* D. Process Seer/Rune Knowledge: the reveals found in the roster, in order
foundReveals(c) ==
    SelectSeq(nightReveals(c), LAMBDA id : Has(c.state.players, id))

RECURSIVE learn(_, _, _)
learn(knowledge, players, reveals) ==
    IF reveals = <<>>
    THEN knowledge
    ELSE learn((Head(reveals) :> Find(players, Head(reveals)).role) @@ knowledge,
               players, Tail(reveals))

\* variant of newKnowledge: the map starts empty instead of as a copy of
\* state.seerKnowledge
newKnowledgeFresh(c) == learn(<<>>, c.state.players, foundReveals(c))

newKnowledge(c) == learn(c.state.seerKnowledge, c.state.players, foundReveals(c))

RECURSIVE logReveals(_, _, _)
logReveals(s, players, reveals) ==
    IF reveals = <<>>
    THEN s
    ELSE logReveals(addLog(s, <<"reveal", Head(reveals),
                               Find(players, Head(reveals)).role>>, "system", NULL),
                    players, Tail(reveals))

\* a rune put on cooldown after use: r.cooldown + 1 (App.tsx:262, 270)
consumeRune(r) == [r EXCEPT !.currentCooldown = r.cooldown + 1]

\* runeActions.find(ba => ba.playerId === p.id): the first entry of p
HasBotAction(runeActions, pid) == \E i \in DOMAIN runeActions : runeActions[i].playerId = pid

FirstBotAction(runeActions, pid) ==
    runeActions[CHOOSE i \in DOMAIN runeActions :
                   /\ runeActions[i].playerId = pid
                   /\ \A j \in DOMAIN runeActions : runeActions[j].playerId = pid => i <= j]

consumeIn(runes, runeId) ==
    [k \in DOMAIN runes |-> IF runes[k].id = runeId THEN consumeRune(runes[k]) ELSE runes[k]]

\* variant of nightNextPlayers: the oracle's kill target dies at once
nightNextPlayersKills(c, botActions) ==
    [i \in DOMAIN c.state.players |->
        IF c.state.players[i].id = botActions.werewolfKillTargetId
        THEN [c.state.players[i] EXCEPT !.isAlive = FALSE]
        ELSE c.state.players[i]]

\* E. Update Player State (Cooldowns)
nightNextPlayers(c, botActions) ==
    LET players == c.state.players
        user == userPlayerOf(c.state)
    IN  [i \in DOMAIN players |->
            IF players[i].id = user.id /\ userUsedRuneId(c) # NULL
            THEN [players[i] EXCEPT !.runes = consumeIn(@, userUsedRuneId(c))]
            ELSE IF HasBotAction(botActions.runeActions, players[i].id)
            THEN [players[i] EXCEPT !.runes =
                     consumeIn(@, FirstBotAction(botActions.runeActions, players[i].id).runeId)]
            ELSE players[i]]

primaryWWTarget(kills) == IF Len(kills) > 0 THEN kills[1] ELSE NULL

\* variant of primaryDocTarget: the first save is recorded, whoever it names
primaryDocTargetAnySave(kills, saves) ==
    IF Len(saves) > 0 THEN saves[1] ELSE NULL

primaryDocTarget(kills, saves) ==
    IF primaryWWTarget(kills) # NULL /\ Includes(saves, primaryWWTarget(kills))
    THEN primaryWWTarget(kills)
    ELSE NULL

nightTargets(c, botActions) ==
    [ werewolf |-> primaryWWTarget(nightKills(c, botActions)),
      doctor |-> primaryDocTarget(nightKills(c, botActions), nightSaves(c, botActions)),
      seer |-> NULL ]

\* the session after the synchronous rest of confirmNightAction: the
\* addLog calls, then the setState of lines 280-290, applied to s
nightResolved(s, c, botActions) ==
    LET s1 == IF userUsedRuneId(c) # NULL
              THEN addLog(s, <<"activated", userUsedRuneId(c)>>, "action", "You")
              ELSE s
        s2 == logReveals(s1, c.state.players, foundReveals(c))
    IN  [s2 EXCEPT !.players = nightNextPlayers(c, botActions),
                   !.targets = nightTargets(c, botActions),
                   !.seerKnowledge = newKnowledge(c),
                   !.phase = "DAY_INTRO"]

\* variant of confirmNightActionResolve: the oracle's failure is not caught
\* and ends confirmNightAction at its await
confirmNightActionRejected(botActions) ==
    /\ pc.night = "await_oracle"
    /\ pc' = [pc EXCEPT !.night = "idle"]
    /\ frame' = [frame EXCEPT !.night = [c |-> frame.night, botActions |-> botActions]]
    /\ UNCHANGED <<state, uiVars, renderedPhase, harnessVars>>

\* generateBotNightActions resolved with botActions; confirmNightAction runs
\* to its end.  frame.night keeps the call's inputs (history) until the
\* night's deaths have been applied.
confirmNightActionResolve(botActions) ==
    /\ pc.night = "await_oracle"
    /\ state' = nightResolved(state, frame.night, botActions)
    /\ selectedActionTarget' = NULL
    /\ selectedRuneId' = NULL
    /\ isLoading' = FALSE
    /\ pc' = [pc EXCEPT !.night = "idle"]
    /\ frame' = [frame EXCEPT !.night = [c |-> frame.night, botActions |-> botActions]]
    /\ UNCHANGED <<activeActionType, renderedPhase, harnessVars>>

\* the catch branch of generateBotNightActions: random living targets (null
\* when nobody lives), no rune action
aliveIds(players) == {players[i].id : i \in {j \in DOMAIN players : players[j].isAlive}}

randomIds(players) == IF aliveIds(players) = {} THEN {NULL} ELSE aliveIds(players)

nightFallbacks(players) ==
    { [werewolfKillTargetId |-> k, doctorSaveTargetId |-> d,
       seerCheckTargetId |-> c, runeActions |-> <<>>] :
      k \in randomIds(players), d \in randomIds(players), c \in randomIds(players) }

----------------------------------------------------------------------------
(* Win condition *)

aliveWerewolves(currentPlayers) ==
    Len(SelectSeq(currentPlayers, LAMBDA p : p.isAlive /\ p.role = "Werewolf"))

aliveVillagers(currentPlayers) ==
    Len(SelectSeq(currentPlayers, LAMBDA p : p.isAlive /\ p.role # "Werewolf"))

\* variant of checkWinCondition: the werewolves need a strict majority
checkWinConditionMajority(currentPlayers) ==
    IF aliveWerewolves(currentPlayers) = 0 THEN "Villagers"
    ELSE IF aliveWerewolves(currentPlayers) > aliveVillagers(currentPlayers)
    THEN "Werewolves"
    ELSE NULL

\* checkWinCondition: the team handed to setWinner, or NULL where it
\* returns false
checkWinCondition(currentPlayers) ==
    IF aliveWerewolves(currentPlayers) = 0 THEN "Villagers"
    ELSE IF aliveWerewolves(currentPlayers) >= aliveVillagers(currentPlayers)
    THEN "Werewolves"
    ELSE NULL

\* variant of setWinner: the winner is recorded without the phase change
setWinnerKeepsPhase(s, team) ==
    addLog([s EXCEPT !.winner = team], <<"gameover", team>>, "narrative", NULL)

\* setWinner: its setState updater, then its addLog updater
setWinner(s, team) ==
    addLog([s EXCEPT !.winner = team, !.phase = "GAME_OVER"],
           <<"gameover", team>>, "narrative", NULL)

\* the updaters queued by checkWinCondition(currentPlayers), applied to s
withWinCheck(s, currentPlayers) ==
    IF checkWinCondition(currentPlayers) # NULL
    THEN setWinner(s, checkWinCondition(currentPlayers))
    ELSE s

----------------------------------------------------------------------------
(* Day intro: processNightResults *)

\* variant of applyDeath: the kill flips the target's isAlive
applyDeathToggles(players, targets) ==
    [i \in DOMAIN players |->
        IF /\ targets.werewolf # NULL
           /\ targets.werewolf # targets.doctor
           /\ players[i].id = targets.werewolf
        THEN [players[i] EXCEPT !.isAlive = ~@]
        ELSE players[i]]

\* variant of applyDeath: the kill is applied whatever the doctor target is
applyDeathUnsaved(players, targets) ==
    [i \in DOMAIN players |->
        IF targets.werewolf # NULL /\ players[i].id = targets.werewolf
        THEN [players[i] EXCEPT !.isAlive = FALSE]
        ELSE players[i]]

\* the roster copy of processNightResults with the night's death applied
applyDeath(players, targets) ==
    LET killedId == targets.werewolf
        savedId == targets.doctor
    IN  [i \in DOMAIN players |->
            IF killedId # NULL /\ killedId # savedId /\ players[i].id = killedId
            THEN [players[i] EXCEPT !.isAlive = FALSE]
            ELSE players[i]]

\* victimName: set when the kill is neither null nor saved and names a
\* participant (the participant's id stands for its name)
victimOf(players, targets) ==
    IF /\ targets.werewolf # NULL
       /\ targets.werewolf # targets.doctor
       /\ Has(players, targets.werewolf)
    THEN targets.werewolf
    ELSE NULL

\* runPhase, branch DAY_INTRO: processNightResults up to the await of
\* generateNarratorText
RunPhaseDayIntro ==
    /\ state.phase # renderedPhase
    /\ state.phase = "DAY_INTRO"
    /\ renderedPhase' = state.phase
    /\ isLoading' = TRUE
    /\ pc' = [pc EXCEPT !.dayIntro = "await_narrator"]
    /\ frame' = [frame EXCEPT !.dayIntro =
                    [ nextPlayers |-> applyDeath(state.players, state.targets),
                      victimName |-> victimOf(state.players, state.targets) ]]
    /\ UNCHANGED <<state, selectedActionTarget, activeActionType,
                   selectedRuneId, harnessVars>>

\* variant of nightResultsApplied: checkWinCondition is called before the
\* setState that advances the phase
nightResultsAppliedCheckFirst(s, f, text) ==
    LET s1 == addLog(s, <<text>>, "narrative", NULL)
        s2 == IF f.victimName # NULL
              THEN addLog(s1, <<"died", f.victimName>>, "system", NULL)
              ELSE s1
        s3 == withWinCheck(s2, f.nextPlayers)
    IN  [s3 EXCEPT !.players = f.nextPlayers, !.phase = "DAY_DISCUSSION"]

\* variant of nightResultsApplied: the roster is not handed to
\* checkWinCondition
nightResultsAppliedUnchecked(s, f, text) ==
    LET s1 == addLog(s, <<text>>, "narrative", NULL)
        s2 == IF f.victimName # NULL
              THEN addLog(s1, <<"died", f.victimName>>, "system", NULL)
              ELSE s1
    IN  [s2 EXCEPT !.players = f.nextPlayers, !.phase = "DAY_DISCUSSION"]

\* the session after the synchronous rest of processNightResults
nightResultsApplied(s, f, text) ==
    LET s1 == addLog(s, <<text>>, "narrative", NULL)
        s2 == IF f.victimName # NULL
              THEN addLog(s1, <<"died", f.victimName>>, "system", NULL)
              ELSE s1
        s3 == [s2 EXCEPT !.players = f.nextPlayers, !.phase = "DAY_DISCUSSION"]
    IN  withWinCheck(s3, f.nextPlayers)

\* generateNarratorText resolved; processNightResults runs to its end
processNightResultsDone(text) ==
    /\ pc.dayIntro = "await_narrator"
    /\ state' = nightResultsApplied(state, frame.dayIntro, text)
    /\ isLoading' = FALSE
    /\ pc' = [pc EXCEPT !.dayIntro = "idle"]
    /\ frame' = [frame EXCEPT !.dayIntro = <<>>, !.night = <<>>]
    /\ UNCHANGED <<selectedActionTarget, activeActionType, selectedRuneId,
                   renderedPhase, harnessVars>>

----------------------------------------------------------------------------
(* Day discussion: runDayDiscussion *)

\* generateBotDayActions: nothing is asked when no bot is alive; otherwise
\* the oracle's array (the empty array when the call fails)
generateBotDayActions(players, response) ==
    IF \A i \in DOMAIN players : ~(players[i].isAlive /\ players[i].isBot)
    THEN <<>>
    ELSE response

\* runPhase, branch DAY_DISCUSSION: runDayDiscussion up to the await of
\* generateBotDayActions
RunPhaseDayDiscussion ==
    /\ state.phase # renderedPhase
    /\ state.phase = "DAY_DISCUSSION"
    /\ renderedPhase' = state.phase
    /\ isLoading' = TRUE
    /\ pc' = [pc EXCEPT !.discussion = "await_oracle"]
    /\ frame' = [frame EXCEPT !.discussion = [state |-> state, botMoves |-> <<>>]]
    /\ UNCHANGED <<state, selectedActionTarget, activeActionType,
                   selectedRuneId, harnessVars>>

\* variant of speaks: a dead participant's move is voiced as well
speaksEvenDead(players, move) == Has(players, move.playerId)

speaks(players, move) ==
    Has(players, move.playerId) /\ Find(players, move.playerId).isAlive

\* the moves from the first one whose player is found and alive on
RECURSIVE fromNextSpeaker(_, _)
fromNextSpeaker(players, botMoves) ==
    IF botMoves = <<>> \/ speaks(players, Head(botMoves))
    THEN botMoves
    ELSE fromNextSpeaker(players, Tail(botMoves))

\* the for loop of runDayDiscussion from `botMoves` on, up to its next
\* await (after a chat line) or to the end of the function
discussionStep(botMoves) ==
    LET rest == fromNextSpeaker(frame.discussion.state.players, botMoves)
    IN  IF rest # <<>>
        THEN /\ state' = addLog(state, <<"chat", Head(rest).playerId>>, "chat",
                                Head(rest).playerId)
             /\ pc' = [pc EXCEPT !.discussion = "chat_delay"]
             /\ frame' = [frame EXCEPT !.discussion.botMoves = Tail(rest)]
             /\ UNCHANGED isLoading
        ELSE /\ state' = [state EXCEPT !.phase = "DAY_VOTING"]
             /\ isLoading' = FALSE
             /\ pc' = [pc EXCEPT !.discussion = "idle"]
             /\ frame' = [frame EXCEPT !.discussion = <<>>]

\* generateBotDayActions resolved with `response`
dayDiscussionMoves(response) ==
    /\ pc.discussion = "await_oracle"
    /\ discussionStep(generateBotDayActions(frame.discussion.state.players, response))
    /\ UNCHANGED <<selectedActionTarget, activeActionType, selectedRuneId,
                   renderedPhase, harnessVars>>

\* the 800 ms delay after a chat line has passed
dayDiscussionNext ==
    /\ pc.discussion = "chat_delay"
    /\ discussionStep(frame.discussion.botMoves)
    /\ UNCHANGED <<selectedActionTarget, activeActionType, selectedRuneId,
                   renderedPhase, harnessVars>>

----------------------------------------------------------------------------
(* Day voting: confirmVote *)

\* a click on the Vote button of the card of targetId: in every phase but
\* NIGHT_ACTION the card calls handleVote
handleVote(targetId) ==
    /\ state.phase = renderedPhase
    /\ state.phase = "DAY_VOTING"
    /\ Has(state.players, targetId)
    /\ Find(state.players, targetId).isAlive
    /\ canAct(state, activeActionType, selectedRuneId, Find(state.players, targetId))
    /\ selectedActionTarget' = targetId
    /\ UNCHANGED <<state, isLoading, activeActionType, selectedRuneId,
                   renderedPhase, pc, frame, harnessVars>>

\* confirmVote up to the await of generateBotDayActions.  The button is
\* rendered in DAY_VOTING while the user is alive and is disabled when no
\* target is selected or isLoading (App.tsx:719-728).
confirmVoteClick ==
    /\ state.phase = renderedPhase
    /\ state.phase = "DAY_VOTING"
    /\ userAliveIn(state)
    /\ selectedActionTarget # NULL
    /\ ~isLoading
    /\ ~(selectedActionTarget = NULL /\ userAliveIn(state))
    /\ isLoading' = TRUE
    /\ pc' = [pc EXCEPT !.vote = "await_oracle"]
    /\ frame' = [frame EXCEPT !.vote = captured]
    /\ UNCHANGED <<state, selectedActionTarget, activeActionType,
                   selectedRuneId, renderedPhase, harnessVars>>

\* voteCounts: Record<string, number>, as its entries in insertion order
\* (the order Object.entries gives for keys that are not array indices)
addVote(voteCounts, id) ==
    IF Has(voteCounts, id)
    THEN [i \in DOMAIN voteCounts |->
             IF voteCounts[i].id = id
             THEN [voteCounts[i] EXCEPT !.count = @ + 1]
             ELSE voteCounts[i]]
    ELSE Append(voteCounts, [id |-> id, count |-> 1])

RECURSIVE countBotVotes(_, _)
countBotVotes(voteCounts, botActions) ==
    IF botActions = <<>>
    THEN voteCounts
    ELSE countBotVotes(IF Head(botActions).voteTargetId # NULL
                       THEN addVote(voteCounts, Head(botActions).voteTargetId)
                       ELSE voteCounts,
                       Tail(botActions))

\* whether the user's own vote is counted (App.tsx:373); the text of its
\* log line ("You voted for <name>") is kept as the tag "voted"
userVotes(c) == userAliveIn(c.state) /\ c.selectedActionTarget # NULL

tally(c, botActions) ==
    IF userVotes(c)
    THEN addVote(countBotVotes(<<>>, botActions), c.selectedActionTarget)
    ELSE countBotVotes(<<>>, botActions)

\* variant of pickEliminated: on a tie the earlier entry stays eliminated
RECURSIVE pickEliminatedKeepsFirst(_, _, _)
pickEliminatedKeepsFirst(entries, maxVotes, eliminatedId) ==
    IF entries = <<>>
    THEN eliminatedId
    ELSE IF Head(entries).count > maxVotes
    THEN pickEliminatedKeepsFirst(Tail(entries), Head(entries).count, Head(entries).id)
    ELSE pickEliminatedKeepsFirst(Tail(entries), maxVotes, eliminatedId)

\* the forEach over Object.entries(voteCounts) of lines 378-387
RECURSIVE pickEliminated(_, _, _)
pickEliminated(entries, maxVotes, eliminatedId) ==
    IF entries = <<>>
    THEN eliminatedId
    ELSE IF Head(entries).count > maxVotes
    THEN pickEliminated(Tail(entries), Head(entries).count, Head(entries).id)
    ELSE IF Head(entries).count = maxVotes
    THEN pickEliminated(Tail(entries), maxVotes, NULL)
    ELSE pickEliminated(Tail(entries), maxVotes, eliminatedId)

eliminatedOf(voteCounts) == pickEliminated(voteCounts, 0, NULL)

votesFor(voteCounts, id) ==
    IF Has(voteCounts, id) THEN Find(voteCounts, id).count ELSE 0

withVotes(players, voteCounts) ==
    [i \in DOMAIN players |->
        [players[i] EXCEPT !.votesAgainst = votesFor(voteCounts, players[i].id)]]

\* generateBotDayActions resolved with `response`; confirmVote runs up to
\* its 2000 ms delay.  state.players is from here on the very array
\* nextPlayers of the call.
confirmVoteTally(response) ==
    /\ pc.vote = "await_oracle"
    /\ LET c == frame.vote
           botActions == generateBotDayActions(c.state.players, response)
           voteCounts == tally(c, botActions)
           nextPlayers == withVotes(c.state.players, voteCounts)
           s1 == IF userVotes(c)
                 THEN addLog(state, <<"voted">>, "action", "You")
                 ELSE state
       IN  /\ state' = [s1 EXCEPT !.players = nextPlayers]
           /\ frame' = [frame EXCEPT !.vote =
                           [ c |-> c, botActions |-> botActions,
                             voteCounts |-> voteCounts,
                             eliminatedId |-> eliminatedOf(voteCounts) ]]
    /\ pc' = [pc EXCEPT !.vote = "delay"]
    /\ UNCHANGED <<uiVars, renderedPhase, harnessVars>>

\* variant of execute: the eliminated participant leaves the roster
executeRemoves(players, eliminatedId) ==
    SelectSeq(players, LAMBDA p : p.id # eliminatedId)

\* eliminated.isAlive = false, on the element of the array in place
execute(players, eliminatedId) ==
    [i \in DOMAIN players |->
        IF eliminatedId # NULL /\ players[i].id = eliminatedId
        THEN [players[i] EXCEPT !.isAlive = FALSE]
        ELSE players[i]]

clearVotes(players) ==
    [i \in DOMAIN players |-> [players[i] EXCEPT !.votesAgainst = 0]]

\* the log lines of the outcome (App.tsx:397-408)
voteLogged(s, players, eliminatedId) ==
    IF eliminatedId # NULL
    THEN IF Has(players, eliminatedId)
         THEN addLog(addLog(s, <<"voted out", eliminatedId>>, "system", NULL),
                     <<"executed", eliminatedId, Find(players, eliminatedId).role>>,
                     "narrative", NULL)
         ELSE s
    ELSE addLog(addLog(s, <<"no agreement">>, "system", NULL),
                <<"no execution">>, "narrative", NULL)

\* variant of voteResolved: the loop-back setState does not depend on the
\* result of checkWinCondition
voteResolvedAlwaysLoops(s, eliminatedId) ==
    LET mutated == execute(s.players, eliminatedId)
        s0 == [s EXCEPT !.players = mutated]
        s1 == voteLogged(s0, mutated, eliminatedId)
        nextPlayers == clearVotes(mutated)
        s2 == withWinCheck(s1, nextPlayers)
    IN  [s2 EXCEPT !.players = nextPlayers,
                   !.phase = "NIGHT_INTRO",
                   !.dayCount = @ + 1,
                   !.targets = [werewolf |-> NULL, doctor |-> NULL, seer |-> NULL]]

\* variant of voteResolved: the execution is applied to a copy of the
\* roster, which the session never receives on a win
voteResolvedOnCopy(s, eliminatedId) ==
    LET mutated == execute(s.players, eliminatedId)
        s1 == voteLogged(s, mutated, eliminatedId)
        nextPlayers == clearVotes(mutated)
        s2 == withWinCheck(s1, nextPlayers)
    IN  IF checkWinCondition(nextPlayers) # NULL
        THEN s2
        ELSE [s2 EXCEPT !.players = nextPlayers,
                        !.phase = "NIGHT_INTRO",
                        !.dayCount = @ + 1,
                        !.targets = [werewolf |-> NULL, doctor |-> NULL, seer |-> NULL]]

\* the session after the synchronous rest of confirmVote.  The execution
\* mutates the roster held by the session in place; the setState of lines
\* 414-420 runs only when checkWinCondition returned false.
voteResolved(s, eliminatedId) ==
    LET mutated == execute(s.players, eliminatedId)
        s0 == [s EXCEPT !.players = mutated]
        s1 == voteLogged(s0, mutated, eliminatedId)
        nextPlayers == clearVotes(mutated)
        s2 == withWinCheck(s1, nextPlayers)
    IN  IF checkWinCondition(nextPlayers) # NULL
        THEN s2
        ELSE [s2 EXCEPT !.players = nextPlayers,
                        !.phase = "NIGHT_INTRO",
                        !.dayCount = @ + 1,
                        !.targets = [werewolf |-> NULL, doctor |-> NULL, seer |-> NULL]]

\* the 2000 ms delay of confirmVote has passed; it runs to its end
confirmVoteDone ==
    /\ pc.vote = "delay"
    /\ state' = voteResolved(state, frame.vote.eliminatedId)
    /\ selectedActionTarget' =
          IF checkWinCondition(clearVotes(execute(state.players, frame.vote.eliminatedId))) = NULL
          THEN NULL
          ELSE selectedActionTarget
    /\ isLoading' = FALSE
    /\ pc' = [pc EXCEPT !.vote = "idle"]
    /\ frame' = [frame EXCEPT !.vote = <<>>]
    /\ UNCHANGED <<activeActionType, selectedRuneId, renderedPhase, harnessVars>>

----------------------------------------------------------------------------
(* The session from its construction on *)

idlePc == [intro |-> "idle", night |-> "idle", dayIntro |-> "idle",
           discussion |-> "idle", vote |-> "idle"]

noFrames == [night |-> <<>>, dayIntro |-> <<>>, discussion |-> <<>>, vote |-> <<>>]

Init ==
    /\ state = initialState
    /\ isLoading = FALSE
    /\ selectedActionTarget = NULL
    /\ activeActionType = "ROLE"
    /\ selectedRuneId = NULL
    /\ renderedPhase = "SETUP"
    /\ pc = idlePc
    /\ frame = noFrames
    /\ fnIn = <<>>
    /\ fnOut = <<>>

\* Inputs explored by Spec.  The roster is dealt in creation order: the
\* user p1, then the bots p2..p8 with roles Werewolf, Seer, Doctor,
\* Villager, Villager, Villager, Werewolf.
IdentityShuffle == [i \in 1..(NumPlayers - 1) |-> i]
IdentityOrder == [i \in 1..NumPlayers |-> i]

GameDeals == { <<2, 3, 1, 2, 3, 1, 2, 3>> }

MaxDay == 2

NarratorTexts == {"flavor"}

UserTargets == {"p3", "p8"}

runeAction(playerId, runeId, targetId) ==
    [playerId |-> playerId, runeId |-> runeId, targetId |-> targetId]

nightResponse(k, d, ra) ==
    [werewolfKillTargetId |-> k, doctorSaveTargetId |-> d,
     seerCheckTargetId |-> NULL, runeActions |-> ra]

NightResponses ==
    { nightResponse(NULL, NULL, <<>>),
      nightResponse("p1", NULL, <<>>),
      nightResponse("p2", "p3", <<>>),
      nightResponse("p3", NULL, <<>>),
      nightResponse("p3", "p3", <<>>),
      nightResponse("p3", NULL, <<runeAction("p2", "r2", "p3")>>),
      nightResponse(GhostId, GhostId, <<>>) }

dayAction(playerId, voteTargetId) ==
    [playerId |-> playerId, voteTargetId |-> voteTargetId]

DiscussionResponses ==
    { <<dayAction(GhostId, "p3"), dayAction("p2", "p3"), dayAction("p3", "p2")>> }

VoteResponses ==
    { <<>>,
      <<dayAction("p2", "p5")>>,
      <<dayAction("p2", "p8"), dayAction("p3", "p8")>>,
      <<dayAction("p2", "p1"), dayAction("p8", "p1")>>,
      <<dayAction("p2", GhostId), dayAction("p3", GhostId)>> }

VoteTargets == {"p5", "p8"}

\* Every handler and completion of the session.  The selection clicks are
\* explored while no resolution is in flight (~isLoading).
Next ==
    \/ \E role \in Roles, deal \in GameDeals :
          startGame(role, IdentityShuffle, deal, IdentityOrder)
    \/ resetGame
    \/ RunPhaseNightIntro(MaxDay)
    \/ \E text \in NarratorTexts : NarratorIntroReturns(text)
    \/ NightIntroTimer
    \/ RunPhaseOther
    \/ \E t \in UserTargets : ~isLoading /\ handleNightAction(t)
    \/ \E k \in {1} : ~isLoading /\ toggleRuneMode(k)
    \/ ~isLoading /\ selectRoleMode
    \/ confirmNightActionClick
    \/ \E botActions \in NightResponses : confirmNightActionResolve(botActions)
    \/ RunPhaseDayIntro
    \/ \E text \in NarratorTexts : processNightResultsDone(text)
    \/ RunPhaseDayDiscussion
    \/ \E response \in DiscussionResponses : dayDiscussionMoves(response)
    \/ dayDiscussionNext
    \/ \E t \in VoteTargets : ~isLoading /\ handleVote(t)
    \/ confirmVoteClick
    \/ \E response \in VoteResponses : confirmVoteTally(response)
    \/ confirmVoteDone

Spec == Init /\ [][Next]_vars

----------------------------------------------------------------------------
(* The phase machine *)

PhaseEdges ==
    { <<"SETUP", "NIGHT_INTRO">>,
      <<"NIGHT_INTRO", "NIGHT_ACTION">>,
      <<"NIGHT_ACTION", "DAY_INTRO">>,
      <<"DAY_INTRO", "DAY_DISCUSSION">>,
      <<"DAY_INTRO", "GAME_OVER">>,
      <<"DAY_DISCUSSION", "DAY_VOTING">>,
      <<"DAY_VOTING", "NIGHT_INTRO">>,
      <<"DAY_VOTING", "GAME_OVER">>,
      <<"GAME_OVER", "SETUP">> }

\* the function of App that is running when a step changes the phase
\* from `from`
EdgeOwnerRuns(from) ==
    CASE from = "SETUP"          -> pc = idlePc /\ state'.players # <<>>
      [] from = "NIGHT_INTRO"    -> pc.intro = "timer"
      [] from = "NIGHT_ACTION"   -> pc.night = "await_oracle"
      [] from = "DAY_INTRO"      -> pc.dayIntro = "await_narrator"
      [] from = "DAY_DISCUSSION" -> pc.discussion \in {"await_oracle", "chat_delay"}
      [] from = "DAY_VOTING"     -> pc.vote = "delay"
      [] from = "GAME_OVER"      -> pc = idlePc /\ state' = initialState
      [] OTHER                   -> FALSE

\* C1: the phase changes only along the edges SETUP->NIGHT_INTRO,
\* NIGHT_INTRO->NIGHT_ACTION, NIGHT_ACTION->DAY_INTRO, DAY_INTRO->
\* DAY_DISCUSSION or GAME_OVER, DAY_DISCUSSION->DAY_VOTING, DAY_VOTING->
\* NIGHT_INTRO or GAME_OVER and GAME_OVER->SETUP, each taken by the function
\* the edge belongs to; no step of any interleaving changes it otherwise.
C1_PhaseEdgesOnly ==
    [][ state'.phase # state.phase =>
          /\ <<state.phase, state'.phase>> \in PhaseEdges
          /\ EdgeOwnerRuns(state.phase) ]_vars

\* C1 witness: a second night has begun and the session then ended, so the
\* loop-back edge and an edge into GAME_OVER have both been taken
C1_Witness ==
    /\ state.phase = "GAME_OVER"
    /\ state.dayCount = 2

\* C2: once the phase is GAME_OVER, every step keeps the phase GAME_OVER and
\* the winner set and unchanged, except the step of resetGame, which gives
\* the initial session; no function of App is still running in GAME_OVER.
C2_GameOverTerminal ==
    [][ state.phase = "GAME_OVER" =>
          /\ state.winner # NULL
          /\ pc = idlePc
          /\ \/ state'.phase = "GAME_OVER" /\ state'.winner = state.winner
             \/ state' = initialState ]_vars

\* C2 witness: the session is back in SETUP after a finished game (resetGame
\* keeps the interface state: the vote's selection is still there)
C2_Witness ==
    /\ state = initialState
    /\ selectedActionTarget # NULL

----------------------------------------------------------------------------
(* The win evaluation on its own: checkWinCondition applied to a roster *)

WinMaxLen == 3

mkPlayer(id, role, isAlive) ==
    [ id |-> id, role |-> role, isAlive |-> isAlive, isBot |-> id # PlayerIds[1],
      votesAgainst |-> 0, runes |-> <<>> ]

\* every roster of at most WinMaxLen participants, and every roster
\* startGame deals, with any of its participants dead
WinRosters ==
    UNION { { [i \in 1..k |-> mkPlayer(PlayerIds[i], f[i][1], f[i][2])] :
              f \in [1..k -> Roles \X BOOLEAN] } : k \in 0..WinMaxLen }
    \cup
    { [i \in 1..NumPlayers |->
          [newRoster(role, IdentityShuffle, deal, IdentityOrder)[i]
              EXCEPT !.isAlive = i \in living]] :
      role \in Roles, deal \in GameDeals, living \in SUBSET (1..NumPlayers) }

InitWin ==
    /\ Init!1 /\ Init!2 /\ Init!3 /\ Init!4 /\ Init!5 /\ Init!6 /\ Init!7 /\ Init!8
    /\ fnIn \in WinRosters
    /\ fnOut = <<>>

\* checkWinCondition(fnIn) is called; fnOut holds what it reports
EvalWin ==
    /\ fnOut = <<>>
    /\ fnOut' = <<checkWinCondition(fnIn)>>
    /\ UNCHANGED <<state, uiVars, renderedPhase, pc, frame, fnIn>>

SpecWin == InitWin /\ [][EvalWin]_vars

livingWith(roster, isWerewolf) ==
    Cardinality({ i \in DOMAIN roster :
                    roster[i].isAlive /\ (roster[i].role = "Werewolf") = isWerewolf })

\* C3: for every roster, with w the number of living Werewolf participants
\* and v the number of living participants of any other role, the win
\* evaluation reports Villagers if w = 0, otherwise Werewolves if w >= v,
\* otherwise that the game continues.
C3_WinEvaluation ==
    fnOut # <<>> =>
        LET w == livingWith(fnIn, TRUE)
            v == livingWith(fnIn, FALSE)
        IN  /\ (w = 0) => fnOut[1] = "Villagers"
            /\ (w # 0 /\ w >= v) => fnOut[1] = "Werewolves"
            /\ (w # 0 /\ w < v) => fnOut[1] = NULL

\* C3 witness: a roster at parity, reported as a Werewolves win
C3_Witness ==
    /\ fnOut = <<"Werewolves">>
    /\ livingWith(fnIn, TRUE) = livingWith(fnIn, FALSE)
    /\ Len(fnIn) = NumPlayers

----------------------------------------------------------------------------
(* Win detection in the running game *)

RunningPhases == {"NIGHT_INTRO", "NIGHT_ACTION", "DAY_DISCUSSION", "DAY_VOTING"}

someoneDead(players) == \E i \in DOMAIN players : ~players[i].isAlive

\* C4: in every reachable state whose phase is NIGHT_INTRO, NIGHT_ACTION,
\* DAY_DISCUSSION or DAY_VOTING at least one werewolf is alive and the
\* living werewolves are strictly fewer than the living non-werewolves.
C4_NoUndetectedWin ==
    state.phase \in RunningPhases =>
        /\ livingWith(state.players, TRUE) >= 1
        /\ livingWith(state.players, TRUE) < livingWith(state.players, FALSE)

\* C4 witness: the discussion of a day whose night killed somebody, one
\* death away from parity
C4_Witness ==
    /\ state.phase = "DAY_DISCUSSION"
    /\ someoneDead(state.players)
    /\ livingWith(state.players, TRUE) + 2 >= livingWith(state.players, FALSE)

----------------------------------------------------------------------------
(* A win found at DAY_INTRO *)

winning(players) ==
    \/ livingWith(players, TRUE) = 0
    \/ livingWith(players, TRUE) >= livingWith(players, FALSE)

\* the step in which processNightResults runs to its end
processNightResultsEnds == pc.dayIntro = "await_narrator" /\ pc'.dayIntro = "idle"

chatLines(logs) == Len(SelectSeq(logs, LAMBDA l : l.type = "chat"))

\* C5: when the roster left by the death applied at DAY_INTRO is a win, the
\* step that applies it ends in GAME_OVER with the winner set, and from
\* GAME_OVER on, until the session is reset, the phase is not
\* DAY_DISCUSSION or DAY_VOTING, runDayDiscussion is not running and no
\* chat line is logged.
C5_WinAtDayIntroSkipsDay ==
    [][ /\ (processNightResultsEnds /\ winning(state'.players)) =>
              /\ state'.phase = "GAME_OVER"
              /\ state'.winner # NULL
              /\ pc'.discussion = "idle"
        /\ (state.phase = "GAME_OVER" /\ state' # initialState) =>
              /\ state'.phase = "GAME_OVER"
              /\ pc'.discussion = "idle"
              /\ chatLines(state'.logs) = chatLines(state.logs) ]_vars

\* C5 witness: the session is over, the win was logged right after the log
\* lines of DAY_INTRO, and the effect of the phase change has run
C5_Witness ==
    /\ state.phase = "GAME_OVER"
    /\ renderedPhase = "GAME_OVER"
    /\ Len(state.logs) >= 2
    /\ state.logs[Len(state.logs) - 1].phase = "DAY_INTRO"
    /\ someoneDead(state.players)

----------------------------------------------------------------------------
(* A win found by the day vote *)

\* the step in which confirmVote runs to its end
confirmVoteEnds == pc.vote = "delay" /\ pc'.vote = "idle"

cooldowns(players) ==
    [i \in DOMAIN players |->
        [k \in DOMAIN players[i].runes |-> players[i].runes[k].currentCooldown]]

\* C6: when the roster left by the day vote is a win, the step that resolves
\* the vote ends in GAME_OVER with dayCount and every cooldown unchanged,
\* and from GAME_OVER on, until the session is reset, NIGHT_INTRO is not
\* entered, runPhase does not run its night branch, no cooldown is ticked
\* and dayCount keeps its value.
C6_WinAtVoteSkipsLoopBack ==
    [][ /\ (confirmVoteEnds /\ winning(state'.players)) =>
              /\ state'.phase = "GAME_OVER"
              /\ state'.winner # NULL
              /\ state'.dayCount = state.dayCount
              /\ cooldowns(state'.players) = cooldowns(state.players)
        /\ (state.phase = "GAME_OVER" /\ state' # initialState) =>
              /\ state'.phase # "NIGHT_INTRO"
              /\ pc'.intro = "idle"
              /\ state'.dayCount = state.dayCount
              /\ cooldowns(state'.players) = cooldowns(state.players) ]_vars

\* C6 witness: the session is over, the win was logged right after the log
\* lines of the vote, and a rune is still on cooldown
C6_Witness ==
    /\ state.phase = "GAME_OVER"
    /\ renderedPhase = "GAME_OVER"
    /\ Len(state.logs) >= 2
    /\ state.logs[Len(state.logs) - 1].phase = "DAY_VOTING"
    /\ \E i \in DOMAIN state.players :
          state.players[i].runes[1].currentCooldown > 0

----------------------------------------------------------------------------
(* The day counter *)

\* the day votes the session has tallied: each one logs the user's vote
votesCast(logs) == Len(SelectSeq(logs, LAMBDA l : l.text = <<"voted">>))

\* whether the session ended in the resolution of a day vote
endedByVote(s) ==
    /\ s.phase = "GAME_OVER"
    /\ Len(s.logs) >= 2
    /\ s.logs[Len(s.logs) - 1].phase = "DAY_VOTING"

\* the day votes of session s resolved without a winner, given the position
\* p of confirmVote
votesWithoutWinner(s, p) ==
    votesCast(s.logs) - (IF p = "delay" THEN 1 ELSE 0)
                      - (IF endedByVote(s) THEN 1 ELSE 0)

\* C7: dayCount becomes 1 on SETUP->NIGHT_INTRO, increases by exactly 1 on
\* DAY_VOTING->NIGHT_INTRO and changes in no other step of a game; in every
\* state of a game dayCount = 1 + the number of day votes resolved without a
\* winner, so it is not incremented by the vote that ends the game.
C7_DayCount ==
    [][ /\ (state.phase = "SETUP" /\ state'.phase = "NIGHT_INTRO") =>
              state'.dayCount = 1
        /\ (state.phase = "DAY_VOTING" /\ state'.phase = "NIGHT_INTRO") =>
              state'.dayCount = state.dayCount + 1
        /\ (state'.dayCount # state.dayCount) =>
              \/ state.phase = "SETUP" /\ state'.phase = "NIGHT_INTRO"
              \/ state.phase = "DAY_VOTING" /\ state'.phase = "NIGHT_INTRO"
              \/ state.phase = "GAME_OVER" /\ state' = initialState
        /\ (state'.phase # "SETUP") =>
              state'.dayCount = 1 + votesWithoutWinner(state', pc'.vote) ]_vars

\* C7 witness: the second night, after one day vote without a winner
C7_Witness ==
    /\ state.phase = "NIGHT_ACTION"
    /\ state.dayCount = 2
    /\ votesCast(state.logs) = 1

----------------------------------------------------------------------------
(* The night's death *)

livingIds(players) == { players[i].id : i \in { j \in DOMAIN players : players[j].isAlive } }

rosterIds(players) == [i \in DOMAIN players |-> players[i].id]

\* C8: in the step that applies the night at DAY_INTRO, with the pending
\* targets of the session: if the werewolf target is null nobody dies; if
\* it equals the doctor target nobody dies; otherwise the werewolf target
\* is not alive afterwards and every other participant is alive exactly if
\* it was.  At most one participant dies.
C8_DeathApplication ==
    [][ processNightResultsEnds =>
          LET t == state.targets
              before == livingIds(state.players)
              after == livingIds(state'.players)
          IN  /\ rosterIds(state'.players) = rosterIds(state.players)
              /\ (t.werewolf = NULL) => after = before
              /\ (t.werewolf = t.doctor) => after = before
              /\ (t.werewolf # NULL /\ t.werewolf # t.doctor) =>
                    after = before \ {t.werewolf}
              /\ Cardinality(before \ after) <= 1 ]_vars

\* C8 witness: the day after a night whose kill was not prevented; the
\* target is dead
C8_Witness ==
    /\ state.phase = "DAY_DISCUSSION"
    /\ pc.dayIntro = "idle"
    /\ state.targets.werewolf \in Ids
    /\ state.targets.doctor = NULL
    /\ state.targets.werewolf \notin livingIds(state.players)

\* the targets the protect proposals of a night name: the oracle's doctor
\* save, the oracle's uses of a SHIELD rune, the user's Doctor action and
\* the user's SHIELD rune
protectProposals(c, botActions) ==
    LET user == userPlayerOf(c.state)
        ras == botActions.runeActions
    IN  ({botActions.doctorSaveTargetId} \ {NULL})
        \cup { ras[i].targetId : i \in { j \in DOMAIN ras :
                  \E p \in DOMAIN c.state.players :
                     /\ c.state.players[p].id = ras[j].playerId
                     /\ \E k \in DOMAIN c.state.players[p].runes :
                           /\ c.state.players[p].runes[k].id = ras[j].runeId
                           /\ c.state.players[p].runes[k].type = "SHIELD" } }
        \cup (IF user.role = "Doctor" /\ c.activeActionType = "ROLE"
              THEN {c.selectedActionTarget} \ {NULL} ELSE {})
        \cup (IF /\ c.activeActionType = "RUNE"
                 /\ \E k \in DOMAIN user.runes :
                       user.runes[k].id = c.selectedRuneId /\ user.runes[k].type = "SHIELD"
              THEN {c.selectedActionTarget} \ {NULL} ELSE {})

\* C9: in the step that applies the night at DAY_INTRO, if the pending kill
\* target is named by a protect proposal of the night (oracle doctor save,
\* oracle SHIELD rune use, the user's Doctor action or SHIELD rune), the
\* target is alive afterwards if it was before; and resolving the night's
\* inputs again gives the pending targets and the roster the session has.
C9_ProtectedSurvives ==
    [][ processNightResultsEnds =>
          LET c == frame.night.c
              botActions == frame.night.botActions
              k == state.targets.werewolf
          IN  /\ (k # NULL /\ k \in protectProposals(c, botActions)) =>
                    (k \in livingIds(state.players) => k \in livingIds(state'.players))
              /\ nightTargets(c, botActions) = state.targets
              /\ nightResolved(c.state, c, botActions).players = state.players
              /\ applyDeath(state.players, nightTargets(c, botActions)) = state'.players ]_vars

\* C9 witness: the day after a night whose kill target was protected; the
\* target is alive
C9_Witness ==
    /\ state.phase = "DAY_DISCUSSION"
    /\ pc.dayIntro = "idle"
    /\ state.targets.werewolf \in Ids
    /\ state.targets.doctor = state.targets.werewolf
    /\ state.targets.werewolf \in livingIds(state.players)

----------------------------------------------------------------------------
(* The day vote tally on its own: the tally of confirmVote applied to a *)
(* batch of oracle votes and the user's selection                       *)

VoteMaxLen == 3

\* the ids a vote may name: participants, an id no participant has, or
\* nothing
VotedIds == {"p2", "p3", "p4", GhostId, NULL}

\* the render confirmVote closes over: the roster of a new game in
\* DAY_VOTING and the user's selection (none when the user cannot select)
voteCapture(userTarget) ==
    [ state |-> [startedState("Villager", IdentityShuffle,
                              CHOOSE deal \in GameDeals : TRUE, IdentityOrder)
                    EXCEPT !.phase = "DAY_VOTING"],
      selectedActionTarget |-> userTarget,
      activeActionType |-> "ROLE",
      selectedRuneId |-> NULL ]

\* the i-th oracle vote is cast by the i-th bot
VoteBatches ==
    UNION { { [i \in 1..k |-> dayAction(PlayerIds[i + 1], f[i])] :
              f \in [1..k -> VotedIds] } : k \in 0..VoteMaxLen }

InitVote ==
    /\ Init!1 /\ Init!2 /\ Init!3 /\ Init!4 /\ Init!5 /\ Init!6 /\ Init!7 /\ Init!8
    /\ fnIn \in { [c |-> voteCapture(t), botActions |-> b] :
                   t \in {"p2", "p3", NULL}, b \in VoteBatches }
    /\ fnOut = <<>>

\* confirmVote tallies fnIn and executes: fnOut holds eliminatedId and the
\* roster after the execution
EvalVote ==
    /\ fnOut = <<>>
    /\ LET voteCounts == tally(fnIn.c, fnIn.botActions)
           eliminatedId == eliminatedOf(voteCounts)
       IN  fnOut' = << [ eliminatedId |-> eliminatedId,
                         players |-> execute(withVotes(fnIn.c.state.players, voteCounts),
                                             eliminatedId) ] >>
    /\ UNCHANGED <<state, uiVars, renderedPhase, pc, frame, fnIn>>

SpecVote == InitVote /\ [][EvalVote]_vars

\* the votes fnIn holds for id: the oracle's and the user's
votesNaming(id) ==
    Cardinality({ i \in DOMAIN fnIn.botActions : fnIn.botActions[i].voteTargetId = id })
    + (IF fnIn.c.selectedActionTarget = id THEN 1 ELSE 0)

holdsStrictMax(id) ==
    /\ votesNaming(id) > 0
    /\ \A other \in (VotedIds \ {NULL}) \ {id} : votesNaming(other) < votesNaming(id)

\* C10: after the oracle votes and the user's vote are counted per target
\* id, an id is eliminated if and only if it holds the strictly highest
\* count, and a participant is executed if and only if its id does; when
\* targets share the maximum or no vote was cast, nobody is eliminated.
C10_VoteTally ==
    fnOut # <<>> =>
        /\ \A id \in VotedIds \ {NULL} :
              (fnOut[1].eliminatedId = id) <=> holdsStrictMax(id)
        /\ (fnOut[1].eliminatedId = NULL) <=>
              ~ \E id \in VotedIds \ {NULL} : holdsStrictMax(id)
        /\ \A id \in Ids :
              (id \notin livingIds(fnOut[1].players)) <=> holdsStrictMax(id)

\* C10 witness: three targets tie at the maximum and nobody is eliminated
C10_Witness ==
    /\ fnOut # <<>>
    /\ fnOut[1].eliminatedId = NULL
    /\ votesNaming("p2") = 1
    /\ votesNaming("p3") = 1
    /\ votesNaming("p4") = 1
    /\ livingIds(fnOut[1].players) = Ids

----------------------------------------------------------------------------
(* Aliveness *)

\* the step builds a roster (startGame) or drops it (resetGame)
rosterReplaced == state.phase \in {"SETUP", "GAME_OVER"} /\ state'.phase # state.phase

deadIds(players) == { players[i].id : i \in { j \in DOMAIN players : ~players[j].isAlive } }

\* C11: isAlive is monotonic within a session: in every step that does not
\* replace the roster (startGame, resetGame), the roster keeps its
\* participants and a participant that is not alive stays not alive.
C11_AliveMonotonic ==
    [][ ~rosterReplaced =>
          /\ rosterIds(state'.players) = rosterIds(state.players)
          /\ deadIds(state.players) \subseteq deadIds(state'.players) ]_vars

\* C11 witness: a participant killed in the first night is the kill target
\* of the second night again, and that night has been applied
C11_Witness ==
    /\ state.phase = "DAY_DISCUSSION"
    /\ state.dayCount = 2
    /\ pc.dayIntro = "idle"
    /\ state.targets.werewolf \in deadIds(state.players)
    /\ \E i \in DOMAIN state.logs :
          /\ state.logs[i].text = <<"died", state.targets.werewolf>>
          /\ state.logs[i].phase = "DAY_INTRO"
          /\ \E j \in DOMAIN state.logs : j > i /\ state.logs[j].text = <<"voted">>

----------------------------------------------------------------------------
(* Setup on its own: the roster startGame builds for a chosen role *)

\* outcomes of the two sorts with a random comparator and of the rune draws
Rotation(n, by) == [i \in 1..n |-> ((i - 1 + by) % n) + 1]

Reversal(n) == [i \in 1..n |-> n + 1 - i]

SetupShuffles == {IdentityShuffle, Reversal(NumPlayers - 1), Rotation(NumPlayers - 1, 3)}

SetupOrders == {IdentityOrder, Reversal(NumPlayers), Rotation(NumPlayers, 5)}

SetupDeals == GameDeals \cup { [i \in 1..NumPlayers |-> 1], [i \in 1..NumPlayers |-> 3] }

InitSetup ==
    /\ Init!1 /\ Init!2 /\ Init!3 /\ Init!4 /\ Init!5 /\ Init!6 /\ Init!7 /\ Init!8
    /\ fnIn \in [ selectedRole : Roles, botShuffle : SetupShuffles,
                  deal : SetupDeals, order : SetupOrders ]
    /\ fnOut = <<>>

\* startGame(fnIn.selectedRole) is called; fnOut holds the session it sets
EvalSetup ==
    /\ fnOut = <<>>
    /\ fnOut' = << startedState(fnIn.selectedRole, fnIn.botShuffle, fnIn.deal, fnIn.order) >>
    /\ UNCHANGED <<state, uiVars, renderedPhase, pc, frame, fnIn>>

SpecSetup == InitSetup /\ [][EvalSetup]_vars

holding(players, role) == Cardinality({ i \in DOMAIN players : players[i].role = role })

\* C12: for every role the user may choose, the roster created by startGame
\* has 8 participants with exactly 2 Werewolves, exactly 1 Seer, exactly 1
\* Doctor and Villagers for the rest, the user holding the chosen role.
C12_RoleComposition ==
    fnOut # <<>> =>
        LET players == fnOut[1].players
        IN  /\ Len(players) = 8
            /\ holding(players, "Werewolf") = 2
            /\ holding(players, "Seer") = 1
            /\ holding(players, "Doctor") = 1
            /\ holding(players, "Villager") = 4
            /\ userPlayerOf(fnOut[1]).role = fnIn.selectedRole

----------------------------------------------------------------------------
(* Rune cooldowns *)

\* the runes of a roster, as <<participant, position>> pairs
runeAt(players) ==
    UNION { { <<i, k>> : k \in DOMAIN players[i].runes } : i \in DOMAIN players }

\* C13: in every reachable state every rune of every participant has
\* 0 <= currentCooldown <= cooldown, also right after the rune was used by
\* the user or flagged as used by the oracle.
C13_CooldownRange ==
    \A ik \in runeAt(state.players) :
        LET r == state.players[ik[1]].runes[ik[2]]
        IN  0 <= r.currentCooldown /\ r.currentCooldown <= r.cooldown

\* C14: a step that consumes a rune (its currentCooldown rises) sets the
\* rune's currentCooldown to exactly its cooldown period, not the period
\* plus one.
C14_ConsumeSetsPeriod ==
    [][ ~rosterReplaced =>
          \A ik \in runeAt(state.players) :
              LET r == state.players[ik[1]].runes[ik[2]]
                  rNext == state'.players[ik[1]].runes[ik[2]]
              IN  rNext.currentCooldown > r.currentCooldown =>
                      rNext.currentCooldown = r.cooldown ]_vars

----------------------------------------------------------------------------
(* The knowledge map *)

\* C15: the knowledge map only grows within a session: in every step other
\* than resetGame, an id present in seerKnowledge stays present with the
\* role recorded for it.
C15_KnowledgeGrows ==
    [][ state' # initialState =>
          \A id \in DOMAIN state.seerKnowledge :
              /\ id \in DOMAIN state'.seerKnowledge
              /\ state'.seerKnowledge[id] = state.seerKnowledge[id] ]_vars

\* C15 witness: the second reveal of a session has been recorded next to
\* the first
C15_Witness ==
    /\ Cardinality(DOMAIN state.seerKnowledge) = 2
    /\ state.dayCount = 2
    /\ state.phase = "DAY_INTRO"

----------------------------------------------------------------------------
(* The session when every oracle call fails *)

FailMaxDay == 1

\* the two strings generateNarratorText returns without flavor text: on an
\* empty response and in its catch branch
NarratorDefaults ==
    {"The wind howls through the trees...", "A strange silence falls over the village."}

\* the draws of the night fallback explored: the same living participant
\* for the kill and the check, any of FallbackDraws for the save
FallbackDraws == {"p1", "p3", "p5"}

FailedNightResponses(players) ==
    { r \in nightFallbacks(players) :
        /\ r.werewolfKillTargetId \in FallbackDraws
        /\ r.doctorSaveTargetId \in FallbackDraws
        /\ r.seerCheckTargetId = r.werewolfKillTargetId }

\* the completions of awaits, timers and effects: they are not up to the user
FailCompletions ==
    \/ RunPhaseNightIntro(FailMaxDay)
    \/ \E text \in NarratorDefaults : NarratorIntroReturns(text)
    \/ NightIntroTimer
    \/ RunPhaseOther
    \/ /\ pc.night = "await_oracle"
       /\ \E botActions \in FailedNightResponses(frame.night.state.players) :
             confirmNightActionResolve(botActions)
    \/ RunPhaseDayIntro
    \/ \E text \in NarratorDefaults : processNightResultsDone(text)
    \/ RunPhaseDayDiscussion
    \/ dayDiscussionMoves(<<>>)
    \/ confirmVoteTally(<<>>)
    \/ confirmVoteDone

NextFail ==
    \/ \E role \in Roles, deal \in GameDeals :
          startGame(role, IdentityShuffle, deal, IdentityOrder)
    \/ resetGame
    \/ \E t \in UserTargets : ~isLoading /\ handleNightAction(t)
    \/ \E k \in {1} : ~isLoading /\ toggleRuneMode(k)
    \/ ~isLoading /\ selectRoleMode
    \/ confirmNightActionClick
    \/ \E t \in VoteTargets : ~isLoading /\ handleVote(t)
    \/ confirmVoteClick
    \/ FailCompletions

\* a pending completion is eventually run (promises settle, timers fire,
\* effects run after the commit)
SpecFail == Init /\ [][NextFail]_vars /\ WF_vars(FailCompletions)

confirmNightActionEnds == pc.night = "await_oracle" /\ pc'.night = "idle"

lastLog(s) == s.logs[Len(s.logs)]

\* C16: with every oracle call failing: night resolution takes the fallback
\* (living or null targets, no rune use), records the pending targets and
\* moves NIGHT_ACTION to DAY_INTRO; the narrator's default string is logged;
\* and NIGHT_INTRO leads to NIGHT_ACTION, a confirmed night to DAY_INTRO,
\* DAY_INTRO to DAY_DISCUSSION or GAME_OVER, DAY_DISCUSSION to DAY_VOTING.
C16_FailureNeverStalls ==
    /\ [][ /\ confirmNightActionEnds =>
                LET botActions == frame'.night.botActions
                IN  /\ botActions.runeActions = <<>>
                    /\ {botActions.werewolfKillTargetId, botActions.doctorSaveTargetId}
                          \subseteq livingIds(state.players) \cup {NULL}
                    /\ state'.targets.werewolf = botActions.werewolfKillTargetId
                    /\ state'.phase = "DAY_INTRO"
           /\ (pc.intro = "await_narrator" /\ pc'.intro # "await_narrator") =>
                lastLog(state').text[1] \in NarratorDefaults ]_vars
    /\ (state.phase = "NIGHT_INTRO" /\ state.dayCount <= FailMaxDay)
          ~> (state.phase = "NIGHT_ACTION")
    /\ (pc.night = "await_oracle") ~> (state.phase = "DAY_INTRO")
    /\ (state.phase = "DAY_INTRO") ~> (state.phase \in {"DAY_DISCUSSION", "GAME_OVER"})
    /\ (state.phase = "DAY_DISCUSSION") ~> (state.phase = "DAY_VOTING")

\* C16 witness: the vote of a day reached through failed oracle calls only:
\* a kill drawn by the fallback was applied and no chat line was logged
C16_Witness ==
    /\ state.phase = "DAY_VOTING"
    /\ state.targets.werewolf \in deadIds(state.players)
    /\ chatLines(state.logs) = 0
    /\ \E i \in DOMAIN state.logs :
          state.logs[i].text = <<"A strange silence falls over the village.">>

----------------------------------------------------------------------------
(* Restart and work in flight *)

\* "Play Again" is rendered only inside the game-over modal, and the SETUP
\* screen follows it: in both, no oracle call, chat delay or NIGHT_INTRO timer
\* of the session is outstanding.  A restart therefore never overtakes a
\* completion; the handlers themselves carry no session tag and cancel
\* nothing.
ResetOnlyWhenIdle ==
    (state.winner # NULL \/ state.phase = "SETUP") => pc = idlePc

----------------------------------------------------------------------------
(* The event log *)

\* the step of "Play Again"
resetGameStep == state.winner # NULL /\ state' = initialState

\* C18: the event log is append-only within a session.  On every step other
\* than resetGame the log before the step is a prefix of the log after it:
\* the entries already emitted keep their content and their order, and the
\* step at most adds entries at the end.  startGame writes its welcome entry
\* into the empty log of SETUP, so only resetGame shortens the log.
C18_LogAppendOnly ==
    [][ ~resetGameStep =>
          /\ Len(state'.logs) >= Len(state.logs)
          /\ SubSeq(state'.logs, 1, Len(state.logs)) = state.logs ]_vars

\* C18 witness: in the voting phase of the second day the log still holds, in
\* the order of emission, the welcome entry of startGame first, an entry of
\* the first night and an entry of the first vote after it.
C18_Witness ==
    /\ state.phase = "DAY_VOTING"
    /\ state.dayCount = 2
    /\ Len(state.logs) >= 3
    /\ state.logs[1].phase = "SETUP"
    /\ \E i, j \in DOMAIN state.logs :
          /\ i < j
          /\ state.logs[i].phase = "NIGHT_INTRO"
          /\ state.logs[j].phase = "DAY_VOTING"
          /\ state.logs[j].text = <<"voted">>

----------------------------------------------------------------------------
(* Restart *)

noTargets == [werewolf |-> NULL, doctor |-> NULL, seer |-> NULL]

\* C19: resetGame discards the whole session, and the next startGame begins
\* clean.  The step that changes the session of a finished game (resetGame)
\* gives phase SETUP, an empty roster, an empty log, no winner, an empty
\* userPlayerId, all pending targets null and an empty knowledge map.  The
\* step that changes the session in SETUP (startGame) gives day 1 in
\* NIGHT_INTRO with every participant alive, no votes against anyone, every
\* rune ready, no winner, all pending targets null, an empty knowledge map
\* and the welcome entry as the whole log.
C19_ResetDiscardsSession ==
    [][ /\ (state.phase = "GAME_OVER" /\ state' # state) =>
              /\ state'.phase = "SETUP"
              /\ state'.players = <<>>
              /\ state'.logs = <<>>
              /\ state'.winner = NULL
              /\ state'.userPlayerId = ""
              /\ state'.targets = noTargets
              /\ state'.seerKnowledge = <<>>
        /\ (state.phase = "SETUP" /\ state' # state) =>
              /\ state'.phase = "NIGHT_INTRO"
              /\ state'.dayCount = 1
              /\ Len(state'.players) = NumPlayers
              /\ deadIds(state'.players) = {}
              /\ \A i \in DOMAIN state'.players :
                    state'.players[i].votesAgainst = 0
              /\ \A ik \in runeAt(state'.players) :
                    state'.players[ik[1]].runes[ik[2]].currentCooldown = 0
              /\ state'.winner = NULL
              /\ state'.targets = noTargets
              /\ state'.seerKnowledge = <<>>
              /\ Len(state'.logs) = 1
              /\ state'.logs[1].phase = "SETUP" ]_vars

\* C19 witness: a second game has just been started (the effect of its
\* NIGHT_INTRO has not run yet): the selection made in the vote that ended
\* the previous game is still in the interface, and the session is the
\* clean one of startGame.
C19_Witness ==
    /\ state.phase = "NIGHT_INTRO"
    /\ renderedPhase = "SETUP"
    /\ selectedActionTarget # NULL
    /\ state.dayCount = 1
    /\ deadIds(state.players) = {}
    /\ state.seerKnowledge = <<>>
    /\ state.targets = noTargets

----------------------------------------------------------------------------
(* Night resolution on its own: the primary kill *)

\* what the oracle may give as werewolfKillTargetId (a `string | null`)
KillOracleIds == {NULL, "", "p2", "p3"}

KillUserTargets == {"p3", "p5"}

\* the ability the user can have selected a target with: the role ability
\* (roles with a night ability) or the rune r1
KillUserModes ==
    { <<role, "ROLE", NULL>> : role \in Roles \ {"Villager"} }
    \cup { <<role, "RUNE", RuneIds[1]>> : role \in Roles }

\* the render confirmNightAction closes over: the roster of a new game in
\* NIGHT_ACTION, the user alive with a target selected (the button is
\* rendered and enabled only then)
nightCapture(mode, userTarget) ==
    [ state |-> [startedState(mode[1], IdentityShuffle,
                              CHOOSE deal \in GameDeals : TRUE, IdentityOrder)
                    EXCEPT !.phase = "NIGHT_ACTION"],
      selectedActionTarget |-> userTarget,
      activeActionType |-> mode[2],
      selectedRuneId |-> mode[3] ]

InitKill ==
    /\ Init!1 /\ Init!2 /\ Init!3 /\ Init!4 /\ Init!5 /\ Init!6 /\ Init!7 /\ Init!8
    /\ fnIn \in { [c |-> nightCapture(mode, t), botActions |-> nightResponse(k, d, <<>>)] :
                   mode \in KillUserModes, t \in KillUserTargets,
                   k \in KillOracleIds, d \in {NULL, "p3"} }
    /\ fnOut = <<>>

\* confirmNightAction resolves fnIn: fnOut holds the session it commits
EvalKill ==
    /\ fnOut = <<>>
    /\ fnOut' = << nightResolved(fnIn.c.state, fnIn.c, fnIn.botActions) >>
    /\ UNCHANGED <<state, uiVars, renderedPhase, pc, frame, fnIn>>

SpecKill == InitKill /\ [][EvalKill]_vars

\* the user's kill: the selected target of an alive Werewolf acting with the
\* role ability
userKill ==
    IF /\ userPlayerOf(fnIn.c.state).isAlive
       /\ userPlayerOf(fnIn.c.state).role = "Werewolf"
       /\ fnIn.c.activeActionType = "ROLE"
    THEN fnIn.c.selectedActionTarget
    ELSE NULL

\* C20 (amended): the werewolf target recorded by night resolution is the
\* oracle's werewolfKillTargetId whenever that is neither null nor the empty
\* string, otherwise the user's target when the user is an alive Werewolf
\* acting with the role ability, otherwise null.
C20_PrimaryKill ==
    fnOut # <<>> =>
        fnOut[1].targets.werewolf =
            IF Truthy(fnIn.botActions.werewolfKillTargetId)
            THEN fnIn.botActions.werewolfKillTargetId
            ELSE userKill

\* C20 as stated: the recorded werewolf target is the oracle's
\* werewolfKillTargetId whenever that is non-null, otherwise the user's
\* kill.  An oracle answer of "" is non-null and is not recorded.
C20_AsClaimed ==
    fnOut # <<>> =>
        fnOut[1].targets.werewolf =
            IF fnIn.botActions.werewolfKillTargetId # NULL
            THEN fnIn.botActions.werewolfKillTargetId
            ELSE userKill

\* C20 witness: the oracle names p2, the user is a Werewolf who chose p3 with
\* the role ability, and the recorded target is p2.
C20_Witness ==
    /\ fnOut # <<>>
    /\ fnIn.botActions.werewolfKillTargetId = "p2"
    /\ userKill = "p3"
    /\ fnOut[1].targets.werewolf = "p2"

----------------------------------------------------------------------------
(* The pending doctor target *)

\* C21: the pending doctor target recorded by night resolution is the primary
\* kill target if that target is non-null and named by a protect proposal of
\* the night, and null otherwise; so after every step targets.doctor is null
\* or equal to targets.werewolf, and a save of somebody other than the kill
\* target is not recorded.
C21_DoctorTarget ==
    [][ /\ confirmNightActionEnds =>
              LET k == state'.targets.werewolf
              IN  state'.targets.doctor =
                     IF k # NULL /\ k \in protectProposals(frame.night, frame'.night.botActions)
                     THEN k ELSE NULL
        /\ state'.targets.doctor \in {NULL, state'.targets.werewolf} ]_vars

\* C21 witness: the night has been resolved with an oracle save that names
\* somebody other than the recorded kill target; no doctor target is pending.
C21_Witness ==
    /\ state.phase = "DAY_INTRO"
    /\ frame.night # <<>>
    /\ pc.night = "idle"
    /\ state.targets.werewolf \in Ids
    /\ frame.night.botActions.doctorSaveTargetId \in Ids \ {state.targets.werewolf}
    /\ state.targets.doctor = NULL

----------------------------------------------------------------------------
(* What night resolution writes *)

\* a roster without its cooldown counters
stripCooldowns(players) ==
    [i \in DOMAIN players |->
        [players[i] EXCEPT !.runes =
            [k \in DOMAIN players[i].runes |->
                [players[i].runes[k] EXCEPT !.currentCooldown = 0]]]]

\* C22: night resolution never changes aliveness.  The step that ends
\* confirmNightAction leaves every participant's id, role, isAlive, isBot and
\* votesAgainst and every rune's identity as they were (only currentCooldown
\* may differ), leaves dayCount, moonPhase, winner and userPlayerId
\* unchanged and moves to DAY_INTRO; and no step taken in NIGHT_ACTION
\* changes who is alive.
C22_NightKeepsAliveness ==
    [][ /\ confirmNightActionEnds =>
              /\ stripCooldowns(state'.players) = stripCooldowns(state.players)
              /\ state'.dayCount = state.dayCount
              /\ state'.moonPhase = state.moonPhase
              /\ state'.winner = state.winner
              /\ state'.userPlayerId = state.userPlayerId
              /\ state'.phase = "DAY_INTRO"
        /\ state.phase = "NIGHT_ACTION" =>
              livingIds(state'.players) = livingIds(state.players) ]_vars

\* C22 witness: the night has been resolved with a kill target that nobody
\* protects and with a rune spent; the target is still alive in DAY_INTRO,
\* before the deaths are applied.
C22_Witness ==
    /\ state.phase = "DAY_INTRO"
    /\ pc.night = "idle"
    /\ pc.dayIntro = "idle"
    /\ state.targets.werewolf \in livingIds(state.players)
    /\ state.targets.doctor = NULL
    /\ \E ik \in runeAt(state.players) :
          state.players[ik[1]].runes[ik[2]].currentCooldown > 0

----------------------------------------------------------------------------
(* The outcome of a day vote *)

\* the entries a step appends to the log
appended == SubSeq(state'.logs, Len(state.logs) + 1, Len(state'.logs))

\* C23: every completed day vote appends an outcome log event.  In the step
\* that ends confirmVote the entries appended to the log include the
\* elimination event naming the eliminated id, or the no-execution event.
C23_VoteOutcomeLogged ==
    [][ confirmVoteEnds =>
          \E i \in DOMAIN appended :
             \/ appended[i].text = <<"voted out", frame.vote.eliminatedId>>
             \/ appended[i].text = <<"no agreement">> ]_vars

\* C24: vote accumulators are reset before the next phase begins.  In every
\* state whose phase is not DAY_VOTING every participant's votesAgainst is 0.
C24_VotesReset ==
    state.phase # "DAY_VOTING" =>
        \A i \in DOMAIN state.players : state.players[i].votesAgainst = 0

----------------------------------------------------------------------------
(* Runes that are not ready *)

runeOf(players, ra) == Find(Find(players, ra.playerId).runes, ra.runeId)

\* the oracle's rune uses that name a rune its actor owns and that is ready
readyUses(players, runeActions) ==
    SelectSeq(runeActions,
              LAMBDA ra : ownsRune(players, ra)
                            /\ runeOf(players, ra).currentCooldown = 0)

\* C25: a rune that is not ready cannot be consumed or take effect.  In the
\* step that ends confirmNightAction, a rune the user used was ready; a rune
\* use flagged by the oracle for a rune that is on cooldown leaves that
\* rune's currentCooldown as it was; and the pending doctor target is what
\* the protect proposals give once the oracle's uses of runes that are on
\* cooldown or not owned by their actor are left out.
C25_NotReadyNoEffect ==
    [][ confirmNightActionEnds =>
          LET c == frame.night
              botActions == frame'.night.botActions
              ras == botActions.runeActions
              ready == [botActions EXCEPT !.runeActions = readyUses(c.state.players, @)]
              k == state'.targets.werewolf
          IN  /\ userUsedRuneId(c) # NULL =>
                    Find(userPlayerOf(c.state).runes, userUsedRuneId(c)).currentCooldown = 0
              /\ \A i \in DOMAIN ras :
                    (ownsRune(c.state.players, ras[i])
                       /\ runeOf(c.state.players, ras[i]).currentCooldown > 0) =>
                    runeOf(state'.players, ras[i]).currentCooldown
                       = runeOf(c.state.players, ras[i]).currentCooldown
              /\ state'.targets.doctor =
                    IF k # NULL /\ k \in protectProposals(c, ready) THEN k ELSE NULL ]_vars

----------------------------------------------------------------------------
(* The cooldown tick of NIGHT_INTRO *)

\* the step of runPhase that begins NIGHT_INTRO: the tick, then the request
\* for the flavor text
nightIntroBegins == pc.intro = "idle" /\ pc'.intro = "await_narrator"

cooldownAt(players, ik) == players[ik[1]].runes[ik[2]].currentCooldown

\* C26: the cooldown tick.  Every entry to NIGHT_INTRO starts with runPhase
\* not yet run; the step that begins it is taken in NIGHT_INTRO, gives every
\* rune of every participant max(0, currentCooldown - 1), changes nothing
\* else of the roster and leaves the flavor text requested; NIGHT_INTRO is
\* left only after that step and the answer of the narrator, so the tick
\* happens once per entry; a tick on all-zero cooldowns leaves the roster
\* as it is; and no other step, unless it replaces the roster, decreases a
\* cooldown.
C26_CooldownTick ==
    [][ /\ (state.phase # "NIGHT_INTRO" /\ state'.phase = "NIGHT_INTRO") =>
              pc'.intro = "idle" /\ renderedPhase' # "NIGHT_INTRO"
        /\ nightIntroBegins =>
              /\ state.phase = "NIGHT_INTRO"
              /\ stripCooldowns(state'.players) = stripCooldowns(state.players)
              /\ \A ik \in runeAt(state.players) :
                    cooldownAt(state'.players, ik) =
                       IF cooldownAt(state.players, ik) > 0
                       THEN cooldownAt(state.players, ik) - 1 ELSE 0
              /\ (\A ik \in runeAt(state.players) : cooldownAt(state.players, ik) = 0)
                    => state'.players = state.players
        /\ (pc.intro # pc'.intro /\ ~nightIntroBegins) =>
              \/ pc.intro = "await_narrator" /\ pc'.intro = "timer"
              \/ pc.intro = "timer" /\ pc'.intro = "idle"
        /\ (state.phase = "NIGHT_INTRO" /\ state'.phase # "NIGHT_INTRO") =>
              pc.intro = "timer"
        /\ (~nightIntroBegins /\ ~rosterReplaced) =>
              \A ik \in runeAt(state.players) :
                 cooldownAt(state'.players, ik) >= cooldownAt(state.players, ik) ]_vars

\* C26 witness: the second night has begun and its flavor text is awaited; a
\* rune spent in the first night (set to its period plus one) has been
\* ticked to its period, and a rune not used is at 0.
C26_Witness ==
    /\ state.phase = "NIGHT_INTRO"
    /\ state.dayCount = 2
    /\ pc.intro = "await_narrator"
    /\ \E ik \in runeAt(state.players) :
          /\ cooldownAt(state.players, ik) > 0
          /\ cooldownAt(state.players, ik) = state.players[ik[1]].runes[ik[2]].cooldown
    /\ \E ik \in runeAt(state.players) : cooldownAt(state.players, ik) = 0

----------------------------------------------------------------------------
(* Night resolution on its own: reveals *)

\* the rune drawn for each participant: the user's is SIGHT or SHIELD, the
\* bot p2 holds a SIGHT rune
RevealDeals == { <<d, 1, 2, 3, 1, 2, 3, 1>> : d \in {1, 2} }

\* what the user has learnt in earlier nights
RevealKnown == { <<>>, "p4" :> "Doctor" }

\* the render confirmNightAction closes over, as nightCapture, with the
\* rune draw and the knowledge map given
revealCapture(mode, deal, userTarget, known) ==
    [ state |-> [startedState(mode[1], IdentityShuffle, deal, IdentityOrder)
                    EXCEPT !.phase = "NIGHT_ACTION", !.seerKnowledge = known],
      selectedActionTarget |-> userTarget,
      activeActionType |-> mode[2],
      selectedRuneId |-> mode[3] ]

\* the oracle's answer: a kill, a seer check or none, and a use of p2's
\* SIGHT rune or none
RevealResponses ==
    { [werewolfKillTargetId |-> "p5", doctorSaveTargetId |-> NULL,
       seerCheckTargetId |-> s, runeActions |-> ra] :
         s \in {NULL, "p2", "p3"},
         ra \in { <<>>, <<runeAction("p2", "r2", "p3")>> } }

InitReveal ==
    /\ Init!1 /\ Init!2 /\ Init!3 /\ Init!4 /\ Init!5 /\ Init!6 /\ Init!7 /\ Init!8
    /\ fnIn \in { [c |-> revealCapture(mode, deal, t, known), botActions |-> b] :
                   mode \in KillUserModes, deal \in RevealDeals,
                   t \in KillUserTargets, known \in RevealKnown,
                   b \in RevealResponses }
    /\ fnOut = <<>>

SpecReveal == InitReveal /\ [][EvalKill]_vars

\* the user reveals the selected target: as the Seer with the role ability,
\* or with a SIGHT rune of their own
userReveals ==
    LET c == fnIn.c
        user == userPlayerOf(c.state)
    IN  /\ user.isAlive
        /\ \/ c.activeActionType = "ROLE" /\ user.role = "Seer"
           \/ /\ c.activeActionType = "RUNE"
              /\ \E k \in DOMAIN user.runes :
                    user.runes[k].id = c.selectedRuneId /\ user.runes[k].type = "SIGHT"

\* the reveal events among the log entries resolution has appended
revealEvents ==
    SelectSeq(SubSeq(fnOut[1].logs, Len(fnIn.c.state.logs) + 1, Len(fnOut[1].logs)),
              LAMBDA l : l.text[1] = "reveal")

roleOf(players, id) == players[CHOOSE i \in DOMAIN players : players[i].id = id].role

\* C27: reveal semantics.  When the user reveals a target of the roster (Seer
\* action or SIGHT rune), night resolution writes the target's role under
\* the target's id in the knowledge map, keeps the other entries, and
\* appends exactly one reveal event, which names that target and role.
\* Otherwise the knowledge map is unchanged and no reveal event is appended,
\* whatever the oracle gives as its seer check and whatever SIGHT rune a bot
\* is reported to use.
C27_RevealSemantics ==
    fnOut # <<>> =>
        LET before == fnIn.c.state.seerKnowledge
            after == fnOut[1].seerKnowledge
            t == fnIn.c.selectedActionTarget
        IN  IF userReveals /\ Has(fnIn.c.state.players, t)
            THEN /\ DOMAIN after = DOMAIN before \cup {t}
                 /\ after[t] = roleOf(fnIn.c.state.players, t)
                 /\ \A id \in DOMAIN before \ {t} : after[id] = before[id]
                 /\ Len(revealEvents) = 1
                 /\ revealEvents[1].text = <<"reveal", t, roleOf(fnIn.c.state.players, t)>>
            ELSE /\ after = before
                 /\ revealEvents = <<>>

\* C27 witness: the user has revealed p5 with a SIGHT rune while the oracle
\* checked p2 and reported p2's SIGHT rune used on p3; the map holds p5 and
\* what was known before, and neither p2 nor p3.
C27_Witness ==
    /\ fnOut # <<>>
    /\ userReveals
    /\ fnIn.c.activeActionType = "RUNE"
    /\ fnIn.c.selectedActionTarget = "p5"
    /\ fnIn.botActions.seerCheckTargetId = "p2"
    /\ fnIn.botActions.runeActions # <<>>
    /\ DOMAIN fnOut[1].seerKnowledge = {"p4", "p5"}
    /\ fnOut[1].seerKnowledge["p5"] = "Villager"

----------------------------------------------------------------------------
(* Night targets that name nobody alive *)

\* C28: invalid night target references are dropped.  In the step that ends
\* processNightResults, when the oracle's kill target of the night names
\* nobody in the roster or names a participant who is not alive, nobody's
\* aliveness changes, no death narrative is asked for (no victim is named),
\* no death event is appended to the log, and the night is still resolved:
\* the session moves on to DAY_DISCUSSION or ends.
C28_InvalidTargetDropped ==
    [][ processNightResultsEnds =>
          LET k == frame.night.botActions.werewolfKillTargetId
          IN  (Truthy(k) /\ k \notin livingIds(state.players)) =>
                 /\ livingIds(state'.players) = livingIds(state.players)
                 /\ frame.dayIntro.victimName = NULL
                 /\ \A i \in DOMAIN appended : appended[i].text[1] # "died"
                 /\ state'.phase \in {"DAY_DISCUSSION", "GAME_OVER"} ]_vars

----------------------------------------------------------------------------
(* The day tally on its own: who casts the votes *)

\* the roster of a new game in DAY_VOTING in which the bot p3 has died
castRoster ==
    LET players == startedState("Villager", IdentityShuffle,
                                CHOOSE deal \in GameDeals : TRUE, IdentityOrder).players
    IN  [i \in DOMAIN players |->
            IF players[i].id = "p3" THEN [players[i] EXCEPT !.isAlive = FALSE]
            ELSE players[i]]

castCapture(userTarget) ==
    [ state |-> [voteCapture(userTarget).state EXCEPT !.players = castRoster],
      selectedActionTarget |-> userTarget,
      activeActionType |-> "ROLE",
      selectedRuneId |-> NULL ]

\* an oracle entry: cast by a living bot, a dead bot or nobody of the roster,
\* for a living participant, a dead one, nobody of the roster, or abstaining
CastEntries ==
    { dayAction(caster, target) :
         caster \in {"p2", "p3", GhostId}, target \in {"p4", "p3", GhostId, NULL} }

CastMaxLen == 2

CastBatches == UNION { [1..k -> CastEntries] : k \in 0..CastMaxLen }

InitCast ==
    /\ Init!1 /\ Init!2 /\ Init!3 /\ Init!4 /\ Init!5 /\ Init!6 /\ Init!7 /\ Init!8
    /\ fnIn \in { [c |-> castCapture(t), botActions |-> b] :
                   t \in {"p4", "p5"}, b \in CastBatches }
    /\ fnOut = <<>>

SpecCast == InitCast /\ [][EvalVote]_vars

\* the i-th oracle entry is a vote of its own: its caster is a living bot
\* that no earlier entry names, and its target is a living participant
castCounts(i) ==
    LET b == fnIn.botActions
        players == fnIn.c.state.players
    IN  /\ \E p \in DOMAIN players :
              /\ players[p].id = b[i].playerId
              /\ players[p].isAlive
              /\ players[p].isBot
        /\ \A j \in 1..(i - 1) : b[j].playerId # b[i].playerId
        /\ b[i].voteTargetId \in livingIds(players)

votesCastFor(id) ==
    Cardinality({ i \in DOMAIN fnIn.botActions :
                    castCounts(i) /\ fnIn.botActions[i].voteTargetId = id })
    + (IF userAliveIn(fnIn.c.state) /\ fnIn.c.selectedActionTarget = id THEN 1 ELSE 0)

\* C29: vote casting.  The tally counts one vote per living bot and one of
\* the living user: the id eliminated is the living participant that holds
\* the strictly highest number of such votes, and nobody when there is no
\* such participant; entries of a dead, unknown or repeated caster and
\* entries for a dead or unknown target change nothing.
C29_VoteCasting ==
    fnOut # <<>> =>
        \A id \in Ids \cup {GhostId} :
            fnOut[1].eliminatedId = id <=>
                /\ votesCastFor(id) > 0
                /\ \A other \in (Ids \cup {GhostId}) \ {id} :
                      votesCastFor(other) < votesCastFor(id)

----------------------------------------------------------------------------
(* The shape of a new roster *)

\* C30: setup shape.  The roster startGame creates has exactly one
\* participant with isBot false, and its id is userPlayerId; the ids of the
\* participants are pairwise distinct; every participant is alive, has
\* votesAgainst 0 and owns exactly one rune, whose currentCooldown is 0.
C30_SetupShape ==
    fnOut # <<>> =>
        LET players == fnOut[1].players
            users == { i \in DOMAIN players : ~players[i].isBot }
        IN  /\ Cardinality(users) = 1
            /\ \A i \in users : players[i].id = fnOut[1].userPlayerId
            /\ \A i, j \in DOMAIN players : players[i].id = players[j].id => i = j
            /\ \A i \in DOMAIN players :
                  /\ players[i].isAlive
                  /\ players[i].votesAgainst = 0
                  /\ Len(players[i].runes) = 1
                  /\ players[i].runes[1].currentCooldown = 0

\* C30 witness: startGame has dealt a roster in which the final shuffle has
\* moved the user away from the first place.
C30_Witness ==
    /\ fnOut # <<>>
    /\ Len(fnOut[1].players) = NumPlayers
    /\ fnOut[1].players[1].isBot
    /\ \E i \in DOMAIN fnOut[1].players :
          /\ i > 1
          /\ ~fnOut[1].players[i].isBot
          /\ fnOut[1].players[i].id = fnOut[1].userPlayerId

----------------------------------------------------------------------------
(* The roster of a session *)

\* what a participant is for the whole session: id, role, isBot and the
\* runes owned (id, name, type, cooldown period)
identityOf(players) ==
    [i \in DOMAIN players |->
        [ id |-> players[i].id, role |-> players[i].role, isBot |-> players[i].isBot,
          runes |-> [k \in DOMAIN players[i].runes |->
                        [ id |-> players[i].runes[k].id,
                          name |-> players[i].runes[k].name,
                          type |-> players[i].runes[k].type,
                          cooldown |-> players[i].runes[k].cooldown ]] ]]

\* C31: the roster is fixed for the session.  Every step other than
\* startGame and resetGame keeps the participants, in their order, with
\* their ids, roles, isBot flags and runes (id, type, cooldown period), and
\* keeps userPlayerId.
C31_RosterFixed ==
    [][ ~rosterReplaced =>
          /\ identityOf(state'.players) = identityOf(state.players)
          /\ state'.userPlayerId = state.userPlayerId ]_vars

\* C31 witness: the second night of a game; somebody has died, a rune has
\* been spent, and the roster still holds all the participants.
C31_Witness ==
    /\ state.phase = "NIGHT_ACTION"
    /\ state.dayCount = 2
    /\ Len(state.players) = NumPlayers
    /\ deadIds(state.players) # {}
    /\ \E ik \in runeAt(state.players) : cooldownAt(state.players, ik) > 0

----------------------------------------------------------------------------
(* The user's action of a night *)

\* an oracle answer that proposes nothing
noProposals == nightResponse(NULL, NULL, <<>>)

\* what the user's own action adds to the kills, saves and reveals
userPushes(c) ==
    nightKills(c, noProposals) \o nightSaves(c, noProposals) \o nightReveals(c)

----------------------------------------------------------------------------
(* One resolution at a time *)

BusyMaxDay == 1

\* Every handler and completion of the session, as Next, with the selection
\* clicks possible at any time their buttons are enabled: the cards and the
\* rune and role buttons are not disabled by isLoading (App.tsx:651-700,
\* 769-779), only the two confirm buttons are (708, 722).
NextBusy ==
    \/ \E role \in Roles, deal \in GameDeals :
          startGame(role, IdentityShuffle, deal, IdentityOrder)
    \/ resetGame
    \/ RunPhaseNightIntro(BusyMaxDay)
    \/ \E text \in NarratorTexts : NarratorIntroReturns(text)
    \/ NightIntroTimer
    \/ RunPhaseOther
    \/ \E t \in UserTargets : handleNightAction(t)
    \/ \E k \in {1} : toggleRuneMode(k)
    \/ selectRoleMode
    \/ confirmNightActionClick
    \/ \E botActions \in NightResponses : confirmNightActionResolve(botActions)
    \/ RunPhaseDayIntro
    \/ \E text \in NarratorTexts : processNightResultsDone(text)
    \/ RunPhaseDayDiscussion
    \/ \E response \in DiscussionResponses : dayDiscussionMoves(response)
    \/ dayDiscussionNext
    \/ \E t \in VoteTargets : handleVote(t)
    \/ confirmVoteClick
    \/ \E response \in VoteResponses : confirmVoteTally(response)
    \/ confirmVoteDone

SpecBusy == Init /\ [][NextBusy]_vars

\* the functions of App that are suspended at an await or a timer
inFlight == { f \in DOMAIN pc : pc[f] # "idle" }

\* C33: single-writer.  At most one resolution is in flight at any time;
\* while one is, neither confirm button can start another; and a step that
\* is not a continuation of the resolution in flight (it moves neither the
\* position of the suspended function nor what the function holds: a
\* selection click, an effect with no branch) leaves the whole session as
\* it is.
C33_SingleWriter ==
    /\ [](Cardinality(inFlight) <= 1)
    /\ [](inFlight # {} => ~ENABLED confirmNightActionClick /\ ~ENABLED confirmVoteClick)
    /\ [][ (inFlight # {} /\ pc' = pc /\ frame' = frame) => state' = state ]_vars

\* C33 witness: confirmNightAction is suspended at the oracle call and the
\* user has meanwhile selected another target than the one it captured.
C33_Witness ==
    /\ pc.night = "await_oracle"
    /\ isLoading
    /\ selectedActionTarget # NULL
    /\ selectedActionTarget # frame.night.selectedActionTarget

----------------------------------------------------------------------------
(* Day discussion *)

\* the step in which runDayDiscussion runs to its end
runDayDiscussionEnds == pc.discussion # "idle" /\ pc'.discussion = "idle"

\* the casters of the moves made by living participants, in the order given
livingSpeakers(players, moves) ==
    LET voiced == SelectSeq(moves, LAMBDA m : m.playerId \in livingIds(players))
    IN  [i \in DOMAIN voiced |-> voiced[i].playerId]

\* C34: day discussion carries no resolution semantics.  No step taken in
\* DAY_DISCUSSION changes the roster, dayCount, the pending targets, the
\* knowledge map or the winner, and the phase can only become DAY_VOTING;
\* when runDayDiscussion ends, the log entries added since it began are
\* chat entries, one per oracle move of a living participant, in the
\* oracle's order; and the tally of the following vote counts the entries
\* of its own oracle call and the user's vote, nothing of the discussion.
C34_DiscussionOnlyChats ==
    [][ /\ state.phase = "DAY_DISCUSSION" =>
              /\ state'.players = state.players
              /\ state'.dayCount = state.dayCount
              /\ state'.targets = state.targets
              /\ state'.seerKnowledge = state.seerKnowledge
              /\ state'.winner = state.winner
              /\ state'.phase \in {"DAY_DISCUSSION", "DAY_VOTING"}
        /\ runDayDiscussionEnds =>
              LET start == frame.discussion.state
                  added == SubSeq(state'.logs, Len(start.logs) + 1, Len(state'.logs))
              IN  /\ state'.phase = "DAY_VOTING"
                  /\ \A i \in DOMAIN added : added[i].type = "chat"
                  /\ \E response \in DiscussionResponses :
                        [i \in DOMAIN added |-> added[i].source]
                           = livingSpeakers(start.players,
                                            generateBotDayActions(start.players, response))
        /\ (pc.vote = "await_oracle" /\ pc'.vote = "delay") =>
              \A id \in Ids \cup {GhostId} :
                 votesFor(frame'.vote.voteCounts, id) =
                    Cardinality({ i \in DOMAIN frame'.vote.botActions :
                                    frame'.vote.botActions[i].voteTargetId = id })
                    + (IF frame.vote.selectedActionTarget = id THEN 1 ELSE 0) ]_vars

\* C34 witness: a vote has been tallied after a discussion in which p2
\* spoke and proposed p3; p3 has no vote in the tally.
C34_Witness ==
    /\ pc.vote = "delay"
    /\ \E i \in DOMAIN state.logs :
          state.logs[i].type = "chat" /\ state.logs[i].source = "p2"
    /\ frame.vote.voteCounts # <<>>
    /\ votesFor(frame.vote.voteCounts, "p3") = 0

----------------------------------------------------------------------------
(* Progress with a dead user *)

\* the session waits for a click: no handler is in flight and the phase
\* effect has run for the current phase
awaitingClick == pc = idlePc /\ renderedPhase = state.phase /\ ~isLoading

\* C35, as the claim states it: whenever the game is not over and the user
\* is not alive, the step out of NIGHT_ACTION and the step out of
\* DAY_VOTING remain enabled.
C35_AsClaimed ==
    [](( /\ state.winner = NULL
         /\ ~userAliveIn(state)
         /\ awaitingClick )
       => /\ state.phase = "NIGHT_ACTION" => ENABLED confirmNightActionClick
          /\ state.phase = "DAY_VOTING" => ENABLED confirmVoteClick)

----------------------------------------------------------------------------
(* Progress of a living user at night *)

\* the (action type, rune) selections the user can bring about in s by
\* clicks: the current one, the "Role" button, and the button of a rune
\* that is ready
reachableSelections(s, actionType, runeId) ==
    { <<actionType, runeId>>, <<"ROLE", runeId>> }
    \cup { <<"RUNE", userPlayerOf(s).runes[k].id>> :
             k \in { j \in DOMAIN userPlayerOf(s).runes :
                        userPlayerOf(s).runes[j].currentCooldown = 0 } }

\* some card offers its action button to the user
someTargetSelectable(s, actionType, runeId) ==
    \E sel \in reachableSelections(s, actionType, runeId) :
       \E i \in DOMAIN s.players : canAct(s, sel[1], sel[2], s.players[i])

\* C36, as the claim states it: in every NIGHT_ACTION state where the user
\* is alive, whatever the role and the cooldown of the user's rune, some
\* action with a selectable target exists.
C36_AsClaimed ==
    (state.phase = "NIGHT_ACTION" /\ userAliveIn(state))
       => someTargetSelectable(state, activeActionType, selectedRuneId)

----------------------------------------------------------------------------
(* Game over *)

\* the "Game Over!" entries of a log
gameOverLines(logs) ==
    SelectSeq(logs, LAMBDA e : e.text # <<>> /\ e.text[1] = "gameover")

\* C37: the winner is recorded exactly in GAME_OVER, and GAME_OVER is
\* entered at most once per session with exactly one game-over log entry.
\* In every state winner is non-null iff the phase is GAME_OVER, and the
\* log holds one game-over entry in GAME_OVER and none elsewhere; the step
\* that enters GAME_OVER appends exactly one game-over entry, naming the
\* recorded winner; and a step taken in GAME_OVER leaves the session state
\* as it is or replaces it by the initial state of a new session.
C37_GameOverOnce ==
    /\ []( /\ state.winner # NULL <=> state.phase = "GAME_OVER"
           /\ Len(gameOverLines(state.logs))
                 = IF state.phase = "GAME_OVER" THEN 1 ELSE 0 )
    /\ [][ /\ (state.phase # "GAME_OVER" /\ state'.phase = "GAME_OVER") =>
                 /\ Len(gameOverLines(appended)) = 1
                 /\ gameOverLines(appended)[1].text = <<"gameover", state'.winner>>
           /\ state.phase = "GAME_OVER" =>
                 (state' = state \/ state' = initialState) ]_vars

\* C37 witness: the game has ended at dawn, the death of the night's
\* victim being the entry before the game-over entry.
C37_Witness ==
    /\ state.phase = "GAME_OVER"
    /\ state.winner # NULL
    /\ Len(state.logs) >= 2
    /\ state.logs[Len(state.logs)].text[1] = "gameover"
    /\ state.logs[Len(state.logs) - 1].text[1] = "died"

\* the ids of the living werewolves, and of the other living participants
livingWolves(players) ==
    { players[i].id : i \in { j \in DOMAIN players :
                                players[j].isAlive /\ players[j].role = "Werewolf" } }

livingOthers(players) ==
    { players[i].id : i \in { j \in DOMAIN players :
                                players[j].isAlive /\ players[j].role # "Werewolf" } }

\* C38: the recorded winner agrees with the session roster.  In every
\* GAME_OVER state, winner Villagers means the roster of the session has
\* no living werewolf, and winner Werewolves means it has at least one
\* living werewolf and at least as many living werewolves as other living
\* participants; and in the step that enters GAME_OVER, the participant
\* eliminated by the deciding vote or night kill is not alive in the
\* roster of the session.
C38_WinnerMatchesRoster ==
    /\ [](state.phase = "GAME_OVER" =>
            /\ state.winner \in {"Villagers", "Werewolves"}
            /\ state.winner = "Villagers" => livingWolves(state.players) = {}
            /\ state.winner = "Werewolves" =>
                  /\ livingWolves(state.players) # {}
                  /\ Cardinality(livingWolves(state.players))
                        >= Cardinality(livingOthers(state.players)))
    /\ [][ (state.phase # "GAME_OVER" /\ state'.phase = "GAME_OVER") =>
             /\ (confirmVoteEnds /\ Has(state.players, frame.vote.eliminatedId)) =>
                   ~Find(state'.players, frame.vote.eliminatedId).isAlive
             /\ ( /\ processNightResultsEnds
                  /\ state.targets.werewolf # state.targets.doctor
                  /\ Has(state.players, state.targets.werewolf) ) =>
                   ~Find(state'.players, state.targets.werewolf).isAlive ]_vars

\* C38 witness: the vote has executed the last living werewolf; the game
\* is over for the Villagers with a participant voted out.
C38_Witness ==
    /\ state.phase = "GAME_OVER"
    /\ state.winner = "Villagers"
    /\ Len(state.logs) >= 3
    /\ state.logs[Len(state.logs) - 2].text[1] = "voted out"
    /\ ~Find(state.players, state.logs[Len(state.logs) - 2].text[2]).isAlive

----------------------------------------------------------------------------
(* Proposals attributed to dead actors *)

\* a living Doctor is among the bots
livingDoctorBot(players) ==
    \E i \in DOMAIN players :
       players[i].isBot /\ players[i].isAlive /\ players[i].role = "Doctor"

\* the elements of a sequence
Range(seq) == { seq[i] : i \in DOMAIN seq }

\* C39, as the claim states it: proposals attributed to dead actors have no
\* effect.  When confirmNightAction ends, no rune of a dead participant has
\* a higher cooldown than before; the protected target of the night is
\* one that a living actor protected, the rune uses of actors who are not
\* living bots and a doctor save made while no Doctor bot lives being left
\* out.
C39_AsClaimed ==
    [][ confirmNightActionEnds =>
          LET c == frame'.night.c
              b == frame'.night.botActions
              players == c.state.players
              byLiving == SelectSeq(b.runeActions, LAMBDA ra :
                              /\ Has(players, ra.playerId)
                              /\ Find(players, ra.playerId).isBot
                              /\ Find(players, ra.playerId).isAlive)
              heard == nightResponse(b.werewolfKillTargetId,
                                     IF livingDoctorBot(players)
                                     THEN b.doctorSaveTargetId ELSE NULL,
                                     byLiving)
          IN  /\ \A i \in DOMAIN players :
                    ~players[i].isAlive =>
                       \A k \in DOMAIN players[i].runes :
                          state'.players[i].runes[k].currentCooldown
                             <= players[i].runes[k].currentCooldown
              /\ state'.targets.doctor \in {NULL} \cup Range(nightSaves(c, heard)) ]_vars

====
